---- MODULE Spec2Model ----
(***************************************************************************)
(* Verification model of Auracelle Bach (bach_api_utils.py and the         *)
(* Streamlit pages that call it).                                          *)
(*                                                                         *)
(* Python floats are IEEE-754 binary64.  The arithmetic of the code is     *)
(* reproduced bit for bit: a float is a record [s, m, e] standing for      *)
(* s * m * 2^e with m an arbitrary-precision natural number held as a      *)
(* little-endian sequence of base-2^15 limbs, and every operation rounds   *)
(* its exact result to 53 significant bits, ties to even.                  *)
(***************************************************************************)
EXTENDS Integers, Sequences, FiniteSets, TLC

(***************************************************************************)
(* Arbitrary-precision naturals                                            *)
(***************************************************************************)
LB == 32768
LBBits == 15

\* Limb-wise operations are written without recursion wherever the carry
\* can be stated directly; only the two divisions step through the limbs.
BNorm(a) ==
    IF \A i \in 1..Len(a) : a[i] = 0 THEN <<>>
    ELSE SubSeq(a, 1, CHOOSE i \in 1..Len(a) :
                          a[i] # 0 /\ \A j \in (i + 1)..Len(a) : a[j] = 0)

BLimb(a, i) == IF 1 <= i /\ i <= Len(a) THEN a[i] ELSE 0

\* the carry into limb i of a + b: a lower limb overflows and every limb
\* between passes the carry on
BCarry(a, b, i) ==
    IF \E j \in 1..(i - 1) :
           /\ BLimb(a, j) + BLimb(b, j) >= LB
           /\ \A k \in (j + 1)..(i - 1) : BLimb(a, k) + BLimb(b, k) = LB - 1
    THEN 1 ELSE 0

BAdd(a, b) ==
    IF a = <<>> THEN b
    ELSE IF b = <<>> THEN a
    ELSE BNorm([i \in 1..((IF Len(a) > Len(b) THEN Len(a) ELSE Len(b)) + 1) |->
                   (BLimb(a, i) + BLimb(b, i) + BCarry(a, b, i)) % LB])

\* the borrow from limb i of a - b
BBorrow(a, b, i) ==
    IF \E j \in 1..(i - 1) :
           /\ a[j] < BLimb(b, j)
           /\ \A k \in (j + 1)..(i - 1) : a[k] = BLimb(b, k)
    THEN 1 ELSE 0

\* a - b for a >= b
BSub(a, b) ==
    IF b = <<>> THEN a
    ELSE BNorm([i \in 1..Len(a) |-> (a[i] - BLimb(b, i) - BBorrow(a, b, i)) % LB])

\* -1, 0 or 1 for normalised a, b
BCmp(a, b) ==
    LET Top(D) == IF D = {} THEN 0
                  ELSE IF \E i \in D : a[i] > b[i] /\ \A j \in D : j <= i THEN 1
                  ELSE -1
    IN  IF Len(a) > Len(b) THEN 1
        ELSE IF Len(a) < Len(b) THEN -1
        ELSE Top({i \in 1..Len(a) : a[i] # b[i]})

\* limb i of a * m before the carries: the low half of its own product plus
\* the high half of the product below
BMulSmallLimb(a, m, i) == ((BLimb(a, i) * m) % LB) + ((BLimb(a, i - 1) * m) \div LB)

\* a * m for 0 <= m < LB
BMulSmall(a, m) ==
    IF a = <<>> \/ m = 0 THEN <<>>
    ELSE BNorm([i \in 1..(Len(a) + 1) |->
                   (BMulSmallLimb(a, m, i)
                    + (IF \E j \in 1..(i - 1) :
                            /\ BMulSmallLimb(a, m, j) >= LB
                            /\ \A k \in (j + 1)..(i - 1) : BMulSmallLimb(a, m, k) = LB - 1
                       THEN 1 ELSE 0)) % LB])

Zeros(n) == [i \in 1..n |-> 0]

\* a times the limbs lo..hi of b
RECURSIVE BMulRange(_, _, _, _)
BMulRange(a, b, lo, hi) ==
    IF lo = hi THEN BNorm(Zeros(lo - 1) \o BMulSmall(a, b[lo]))
    ELSE BAdd(BMulRange(a, b, lo, (lo + hi) \div 2),
              BMulRange(a, b, (lo + hi) \div 2 + 1, hi))

BMul(a, b) == IF a = <<>> \/ b = <<>> THEN <<>> ELSE BMulRange(a, b, 1, Len(b))

\* the limbs i and below of a divided by d, st.r being the remainder of the
\* limbs above and st.q their quotient
RECURSIVE BDivSmallAt(_, _, _, _)
BDivSmallAt(a, d, i, st) ==
    IF st.r < 0 \/ i = 0 THEN st
    ELSE BDivSmallAt(a, d, i - 1, [q |-> <<(st.r * LB + a[i]) \div d>> \o st.q,
                                   r |-> (st.r * LB + a[i]) % d])

\* quotient and remainder of a by d, 0 < d < LB
BDivSmall(a, d) ==
    LET Norm(st) == IF st.r < 0 THEN st ELSE [q |-> BNorm(st.q), r |-> st.r]
    IN  IF a = <<>> THEN [q |-> <<>>, r |-> 0]
        ELSE Norm(BDivSmallAt(a, d, Len(a), [q |-> <<>>, r |-> 0]))

\* 2^k for k in 0..15
Pow2(k) == <<1, 2, 4, 8, 16, 32, 64, 128, 256, 512, 1024, 2048, 4096,
             8192, 16384, 32768>>[k + 1]

\* number of bits of a limb
BitLenSmall(n) == Cardinality({k \in 0..(LBBits - 1) : Pow2(k) <= n})

BBitLen(a) ==
    IF a = <<>> THEN 0
    ELSE LBBits * (Len(a) - 1) + BitLenSmall(a[Len(a)])

\* a * 2^s for 0 <= s < LBBits
BShlBits(a, s) ==
    BNorm([i \in 1..(Len(a) + 1) |->
              (BLimb(a, i) % Pow2(LBBits - s)) * Pow2(s)
              + BLimb(a, i - 1) \div Pow2(LBBits - s)])

\* a * 2^k
BShl(a, k) ==
    IF a = <<>> THEN <<>>
    ELSE Zeros(k \div LBBits) \o BShlBits(a, k % LBBits)

\* floor(a / 2^s) for 0 <= s < LBBits
BShrBits(a, s) ==
    BNorm([i \in 1..Len(a) |->
              a[i] \div Pow2(s) + (BLimb(a, i + 1) % Pow2(s)) * Pow2(LBBits - s)])

\* floor(a / 2^k)
BShr(a, k) ==
    IF k \div LBBits >= Len(a) THEN <<>>
    ELSE BShrBits(SubSeq(a, k \div LBBits + 1, Len(a)), k % LBBits)

\* bit i (0 = least significant) of a
BBit(a, i) == (BLimb(a, (i \div LBBits) + 1) \div Pow2(i % LBBits)) % 2

\* the limbs of 0 <= n < 2^31
BFromInt(n) == BNorm(<<n % LB, (n \div LB) % LB, n \div (LB * LB)>>)

\* value of a, for a < 2^31
BToInt(a) == BLimb(a, 1) + LB * BLimb(a, 2) + (LB * LB) * BLimb(a, 3)

\* floor(a / 2^k) for k > 0 rounded to nearest, ties to even; sticky says
\* that the exact value lies strictly above a
BShrRound(a, k, sticky) ==
    IF /\ BBit(a, k - 1) = 1
       /\ \/ sticky
          \/ BBit(a, k) = 1
          \/ \E i \in 0..(k - 2) : BBit(a, i) = 1
    THEN BAdd(BShr(a, k), <<1>>)
    ELSE BShr(a, k)

\* the largest digit d < LB with d * b <= t, for t < LB * b and a divisor b
\* whose top limb has its top bit set: the quotient qhat of the leading
\* limbs exceeds it by two at most
BDivDigitFrom(t, b, qhat) ==
    IF BCmp(BMulSmall(b, qhat), t) <= 0 THEN qhat
    ELSE IF BCmp(BMulSmall(b, qhat - 1), t) <= 0 THEN qhat - 1
    ELSE qhat - 2

BDivDigit(t, b) ==
    IF (BLimb(t, Len(b) + 1) * LB + BLimb(t, Len(b))) \div b[Len(b)] > LB - 1
    THEN BDivDigitFrom(t, b, LB - 1)
    ELSE BDivDigitFrom(t, b, (BLimb(t, Len(b) + 1) * LB + BLimb(t, Len(b))) \div b[Len(b)])

\* one step of the long division: the limb below joins the remainder st.r
BDivStep(t, b, q, d) ==
    IF d = 0 THEN [q |-> <<0>> \o q, r |-> t]
    ELSE [q |-> <<d>> \o q, r |-> BSub(t, BMulSmall(b, d))]

\* one limb of the long division: limb i of a joins the remainder st.r of the
\* limbs above it, st.q being their quotient digits
BDivLimb(a, b, i, st) ==
    IF st.r = <<>> /\ a[i] = 0
    THEN [q |-> <<0>> \o st.q, r |-> <<>>]
    ELSE BDivStep(BNorm(<<a[i]>> \o st.r), b, st.q,
                  BDivDigit(BNorm(<<a[i]>> \o st.r), b))

\* long division over the limbs hi down to lo of a, from the state st of the
\* limbs above hi
RECURSIVE BDivRange(_, _, _, _, _)
BDivRange(a, b, hi, lo, st) ==
    IF hi < lo THEN st
    ELSE BDivLimb(a, b, lo, BDivRange(a, b, hi, lo + 1, st))

\* long division of operands shifted so that the top bit of b's top limb is
\* set (k bits): the quotient and the remainder, shifted back
BDivShifted(a, b, k) ==
    LET Unshift(st) == IF st.r = <<>> THEN [q |-> BNorm(st.q), r |-> <<>>]
                       ELSE [q |-> BNorm(st.q), r |-> BShr(st.r, k)]
    IN  Unshift(BDivRange(a, b, Len(a), 1, [q |-> <<>>, r |-> <<>>]))

\* quotient and remainder of a by b # 0
BDivMod(a, b) ==
    IF a = <<>> THEN [q |-> <<>>, r |-> <<>>]
    ELSE BDivShifted(BShl(a, LBBits - BitLenSmall(b[Len(b)])),
                     BShl(b, LBBits - BitLenSmall(b[Len(b)])),
                     LBBits - BitLenSmall(b[Len(b)]))

\* number of trailing zero bits of a # 0
BTrailingZeros(a) ==
    LET w == CHOOSE i \in 1..Len(a) : a[i] # 0 /\ \A j \in 1..(i - 1) : a[j] = 0
        t == Cardinality({k \in 1..LBBits : a[w] % Pow2(k) = 0})
    IN  LBBits * (w - 1) + t

(***************************************************************************)
(* IEEE-754 binary64 values and operations (normal range)                  *)
(***************************************************************************)
MantBits == 53

FZero == [s |-> 1, m |-> <<>>, e |-> 0]

\* canonical form: odd mantissa, so that equal values are equal records
FCanon(s, m, e) ==
    IF m = <<>> THEN FZero
    ELSE [s |-> s, m |-> BShr(m, BTrailingZeros(m)), e |-> e + BTrailingZeros(m)]

\* the exponent of the smallest subnormal, 2^-1074
MinExp == -1074

\* the bits a value of the given bit length and exponent keeps: 53, or the
\* bits it has above 2^-1074 when those are fewer (gradual underflow)
FKeptBits(len, e) == IF len + e - MinExp < MantBits THEN len + e - MinExp ELSE MantBits

\* s * m * 2^e, m having drop bits more than it keeps, rounded to the bits
\* it keeps, ties to even
FRoundTo(s, m, e, sticky, drop) ==
    IF drop <= 0 THEN FCanon(s, m, e)
    ELSE FCanon(s, BShrRound(m, drop, sticky), e + drop)

\* s * m * 2^e rounded to 53 significant bits, ties to even
FRound(s, m, e, sticky) ==
    IF m = <<>> THEN FZero
    ELSE FRoundTo(s, m, e, sticky, BBitLen(m) - FKeptBits(BBitLen(m), e))

FNeg(x) == IF x.m = <<>> THEN x ELSE [x EXCEPT !.s = -x.s]

FAbs(x) == [x EXCEPT !.s = 1]

\* the sum of s * a and t * b with 2^e the unit of both
FAddAligned(s, a, t, b, e) ==
    IF s = t THEN FRound(s, BAdd(a, b), e, FALSE)
    ELSE IF BCmp(a, b) = 0 THEN FZero
    ELSE IF BCmp(a, b) > 0 THEN FRound(s, BSub(a, b), e, FALSE)
    ELSE FRound(t, BSub(b, a), e, FALSE)

FAdd(x, y) ==
    IF x.m = <<>> THEN y
    ELSE IF y.m = <<>> THEN x
    ELSE IF x.e < y.e THEN FAddAligned(x.s, x.m, y.s, BShl(y.m, y.e - x.e), x.e)
    ELSE FAddAligned(x.s, BShl(x.m, x.e - y.e), y.s, y.m, y.e)

FSub(x, y) == FAdd(x, FNeg(y))

FMul(x, y) ==
    IF x.m = <<>> \/ y.m = <<>> THEN FZero
    ELSE FRound(x.s * y.s, BMul(x.m, y.m), x.e + y.e, FALSE)

\* the bits the dividend is shifted by for a quotient of 57 bits or more
FDivShift(x, y) ==
    IF (MantBits + 4) + BBitLen(y.m) - BBitLen(x.m) < 0 THEN 0
    ELSE (MantBits + 4) + BBitLen(y.m) - BBitLen(x.m)

FRoundDiv(s, d, e) == IF d.r = <<>> THEN FRound(s, d.q, e, FALSE) ELSE FRound(s, d.q, e, TRUE)

\* x / y for y # 0 (the callers test for a zero divisor)
FDiv(x, y) ==
    IF x.m = <<>> \/ y.m = <<>> THEN FZero
    ELSE FRoundDiv(x.s * y.s, BDivMod(BShl(x.m, FDivShift(x, y)), y.m),
                   x.e - y.e - FDivShift(x, y))

FInt(n) == IF n < 0 THEN FCanon(-1, BFromInt(-n), 0) ELSE FCanon(1, BFromInt(n), 0)

\* the float a decimal literal num/den denotes (den a power of ten)
FDec(num, den) ==
    LET sh == 5 * LBBits
        Rnd(d) == FRound(IF num < 0 THEN -1 ELSE 1, d.q, -sh, d.r # 0)
    IN  IF num = 0 THEN FZero
        ELSE Rnd(BDivSmall(BShl(BFromInt(IF num < 0 THEN -num ELSE num), sh), den))

FIsZero(x) == x.m = <<>>

\* -1, 0 or 1 as the magnitude of x is below, equal to or above that of y
FCmpAbs(x, y) ==
    IF x.m = <<>> \/ y.m = <<>> THEN (IF x.m # <<>> THEN 1 ELSE IF y.m # <<>> THEN -1 ELSE 0)
    ELSE IF x.e + BBitLen(x.m) > y.e + BBitLen(y.m) THEN 1
    ELSE IF x.e + BBitLen(x.m) < y.e + BBitLen(y.m) THEN -1
    ELSE IF x.e < y.e THEN BCmp(x.m, BShl(y.m, y.e - x.e))
    ELSE BCmp(BShl(x.m, x.e - y.e), y.m)

FLt(x, y) ==
    IF x.s # y.s THEN (IF x.m = <<>> /\ y.m = <<>> THEN FALSE ELSE x.s < y.s)
    ELSE x.s * FCmpAbs(x, y) < 0

FLe(x, y) == ~FLt(y, x)

FMax(x, y) == IF FLt(x, y) THEN y ELSE x

FMin(x, y) == IF FLt(y, x) THEN y ELSE x

\* Python round(x, ndigits) with 10^ndigits = scale < 2^15: the integer
\* nearest to x * scale, ties to even on the exact binary value
FRoundDec(x, scale) ==
    LET Scaled(n) == IF x.e >= 0 THEN BShl(n, x.e) ELSE BShrRound(n, -x.e, FALSE)
    IN  IF x.m = <<>> THEN 0 ELSE x.s * BToInt(Scaled(BMulSmall(x.m, scale)))

\* floor(sqrt(n)) for 0 <= n < 2^28, found in two digits of seven bits
ISqrtHigh(n) == CHOOSE h \in 0..127 : (h * 128) * (h * 128) <= n /\ n < ((h + 1) * 128) * ((h + 1) * 128)

ISqrtLow(n, h) ==
    CHOOSE l \in 0..127 : (h * 128 + l) * (h * 128 + l) <= n
                          /\ n < (h * 128 + l + 1) * (h * 128 + l + 1)

ISqrtSmall(n) == ISqrtLow(n, ISqrtHigh(n)) + 128 * ISqrtHigh(n)

\* floor(sqrt(a)) by Newton's iteration from a value x above it
RECURSIVE BSqrtFrom(_, _, _)
BSqrtFrom(a, x, y) ==
    IF BCmp(y, x) >= 0 THEN x
    ELSE BSqrtFrom(a, y, BShr(BAdd(y, BDivMod(a, y).q), 1))

\* the bits the start of the iteration leaves out of a
SqrtTailBits == 84

\* floor(sqrt(a)) for a of 111 or 112 bits
BSqrt(a) ==
    LET Start(x) == BSqrtFrom(a, x, BShr(BAdd(x, BDivMod(a, x).q), 1))
    IN  Start(BShl(BFromInt(ISqrtSmall(BToInt(BShr(a, SqrtTailBits))) + 1),
                   SqrtTailBits \div 2))

\* the bits a mantissa is shifted up by for a root of 56 bits, the exponent
\* left being even
FSqrtShift(x) ==
    IF (x.e - (111 - BBitLen(x.m))) % 2 = 0 THEN 111 - BBitLen(x.m)
    ELSE 112 - BBitLen(x.m)

\* math.sqrt / numpy.sqrt of x >= 0, correctly rounded
FSqrt(x) ==
    LET Root(a, r, e) == FRound(1, r, e, BCmp(BMul(r, r), a) # 0)
        Scaled(a, k) == Root(a, BSqrt(a), (x.e - k) \div 2)
    IN  IF x.m = <<>> THEN FZero
        ELSE Scaled(BShl(x.m, FSqrtShift(x)), FSqrtShift(x))

(***************************************************************************)
(* Fixed tables of bach_api_utils.py.  A decimal literal of the source is  *)
(* written as its count of hundredths (0.85 is 85) and becomes a float     *)
(* where the code uses it.                                                 *)
(***************************************************************************)
Hundredths == [h \in 0..100 |-> FDec(h, 100)]

Lit(h) == Hundredths[h]

static_fallback ==
    [oecd_principles |->
        [inclusive_growth  |-> [weight |-> 90, category |-> "societal"],
         human_centred     |-> [weight |-> 95, category |-> "ethical"],
         transparency      |-> [weight |-> 85, category |-> "technical"],
         robustness        |-> [weight |-> 90, category |-> "technical"],
         accountability    |-> [weight |-> 95, category |-> "governance"]],
     privacy_scores |->
        [USA |-> [legal_framework |-> 65, enforcement |-> 70, surveillance_concerns |-> 50, data_protection |-> 68, overall |-> 63],
         GBR |-> [legal_framework |-> 85, enforcement |-> 82, surveillance_concerns |-> 60, data_protection |-> 88, overall |-> 79],
         CHN |-> [legal_framework |-> 50, enforcement |-> 45, surveillance_concerns |-> 20, data_protection |-> 40, overall |-> 39],
         JPN |-> [legal_framework |-> 80, enforcement |-> 75, surveillance_concerns |-> 70, data_protection |-> 82, overall |-> 77],
         IND |-> [legal_framework |-> 70, enforcement |-> 65, surveillance_concerns |-> 55, data_protection |-> 72, overall |-> 66],
         BRA |-> [legal_framework |-> 78, enforcement |-> 70, surveillance_concerns |-> 65, data_protection |-> 75, overall |-> 72],
         ARE |-> [legal_framework |-> 60, enforcement |-> 55, surveillance_concerns |-> 45, data_protection |-> 58, overall |-> 55]],
     argumentation_patterns |->
        [USA |-> [rhetoric_style |-> "pragmatic",          consensus_tendency |-> 65, debate_intensity |-> 80],
         GBR |-> [rhetoric_style |-> "balanced",           consensus_tendency |-> 72, debate_intensity |-> 70],
         CHN |-> [rhetoric_style |-> "directive",          consensus_tendency |-> 90, debate_intensity |-> 40],
         JPN |-> [rhetoric_style |-> "consensus-oriented", consensus_tendency |-> 85, debate_intensity |-> 50],
         IND |-> [rhetoric_style |-> "pluralistic",        consensus_tendency |-> 60, debate_intensity |-> 75],
         BRA |-> [rhetoric_style |-> "advocacy-driven",    consensus_tendency |-> 58, debate_intensity |-> 78],
         ARE |-> [rhetoric_style |-> "aspirational",       consensus_tendency |-> 75, debate_intensity |-> 55]]]

oecd_adoption ==
    [USA |-> [adoption_level |-> 85, implementation_score |-> 75, signatory |-> TRUE],
     GBR |-> [adoption_level |-> 90, implementation_score |-> 82, signatory |-> TRUE],
     CHN |-> [adoption_level |-> 60, implementation_score |-> 55, signatory |-> FALSE],
     JPN |-> [adoption_level |-> 88, implementation_score |-> 80, signatory |-> TRUE],
     IND |-> [adoption_level |-> 75, implementation_score |-> 68, signatory |-> TRUE],
     BRA |-> [adoption_level |-> 72, implementation_score |-> 65, signatory |-> TRUE],
     ARE |-> [adoption_level |-> 68, implementation_score |-> 60, signatory |-> FALSE]]

scenario_weights ==
    [p \in {"AI Ethics", "AI Safety", "Data Privacy", "Export Controls", "R&D Investment"} |->
        CASE p = "AI Ethics"       -> [oecd |-> 60, privacy |-> 40]
          [] p = "AI Safety"       -> [oecd |-> 70, privacy |-> 30]
          [] p = "Data Privacy"    -> [oecd |-> 30, privacy |-> 70]
          [] p = "Export Controls" -> [oecd |-> 50, privacy |-> 50]
          [] p = "R&D Investment"  -> [oecd |-> 80, privacy |-> 20]]

\* Python dictionaries are functions on their keys; {} is the empty function
EmptyDict == <<>>

\* key in d
Has(d, key) == DOMAIN d # {} /\ key \in DOMAIN d

\* dict.get(key, default)
Get(d, key, default) == IF Has(d, key) THEN d[key] ELSE default

\* d[key] = value
Put(d, key, value) ==
    [k \in (IF DOMAIN d = {} THEN {} ELSE DOMAIN d) \cup {key} |->
        IF k = key THEN value ELSE d[k]]

(***************************************************************************)
(* BachGovernanceAPI: helper methods.  self is the client object, a record *)
(* of its attributes.                                                      *)
(***************************************************************************)
get_oecd_compliance(self, country_iso3) ==
    Get(self.oecd_adoption, country_iso3,
        [adoption_level |-> 50, implementation_score |-> 45, signatory |-> FALSE])

get_privacy_score(self, country_iso3) ==
    Get(self.privacy_scores, country_iso3,
        [legal_framework |-> 50, enforcement |-> 50, surveillance_concerns |-> 50,
         data_protection |-> 50, overall |-> 50])

get_argumentation_pattern(self, country_iso3) ==
    Get(self.argumentation_patterns, country_iso3,
        [rhetoric_style |-> "neutral", consensus_tendency |-> 65, debate_intensity |-> 60])

\* Python round(x, 3), as a float
\* the floats round(x, 3) returns for 0 <= x <= 1
Thousandths == [n \in 0..1000 |-> FDec(n, 1000)]

PyRound3(x) == Thousandths[FRoundDec(x, 1000)]

\* the float round(ethical_alignment, 3)
calculate_ethical_alignment(self, country_iso3, policy_scenario) ==
    LET Weighted(oecd, privacy, weights) ==
            PyRound3(FAdd(FMul(FDiv(FAdd(Lit(oecd.adoption_level),
                                         Lit(oecd.implementation_score)), FInt(2)),
                               Lit(weights.oecd)),
                          FMul(Lit(privacy.overall), Lit(weights.privacy))))
    IN  Weighted(get_oecd_compliance(self, country_iso3),
                 get_privacy_score(self, country_iso3),
                 Get(scenario_weights, policy_scenario, [oecd |-> 50, privacy |-> 50]))

(***************************************************************************)
(* math.exp and math.log.  libm is not part of the repository; the two     *)
(* uses the code makes of it are computed from their definitions, to far   *)
(* more digits than the three the results are rounded to.                  *)
(***************************************************************************)
ExpScale == 5 * LBBits

ExpTerms == 16

ExpSquarings == 4

\* 1 in the fixed point of the series
ExpOne == BShl(<<1>>, ExpScale)

\* one Horner step: p is y * h, and the step takes h to 1 - y * h / k
ExpStep(k, p) ==
    IF p = <<>> THEN ExpOne
    ELSE BSub(ExpOne, BDivSmall(BShr(p, ExpScale), k).q)

\* the step k of Horner's scheme applied to h
ExpHornerStep(y, k, h) ==
    IF y = <<>> \/ h = <<>> THEN ExpOne
    ELSE ExpStep(k, BMul(y, h))

\* Horner's scheme for the first ExpTerms terms of exp(-y), in fixed point:
\* the steps k = hi, hi - 1, .., lo applied to h
RECURSIVE ExpHorner(_, _, _, _)
ExpHorner(y, hi, lo, h) ==
    IF hi < lo THEN h
    ELSE ExpHornerStep(y, lo, ExpHorner(y, hi, lo + 1, h))

RECURSIVE ExpSquare(_, _)
ExpSquare(x, n) ==
    IF x = <<>> \/ n = 0 THEN x
    ELSE ExpSquare(BShr(BMul(x, x), ExpScale), n - 1)

\* math.exp(-t) for a float 0 <= t < 16: the Taylor series of exp(-t/16)
\* in fixed point with 75 fractional bits, then four squarings
FExpNeg(t) ==
    IF t.m = <<>> THEN FInt(1)
    ELSE IF t.e + ExpScale >= 0
    THEN FRound(1, ExpSquare(ExpHorner(BShr(BShl(t.m, t.e + ExpScale), ExpSquarings),
                                       ExpTerms, 1, ExpOne), ExpSquarings),
                -ExpScale, TRUE)
    ELSE FRound(1, ExpSquare(ExpHorner(BShr(t.m, ExpSquarings - (t.e + ExpScale)),
                                       ExpTerms, 1, ExpOne), ExpSquarings),
                -ExpScale, TRUE)

MaxRounds == 20

\* terms extended by the product of its last term with ratio
FGeometricTerm(ratio, terms) ==
    IF FIsZero(ratio) \/ FIsZero(terms[Len(terms)])
    THEN Append(terms, FZero)
    ELSE Append(terms, FMul(terms[Len(terms)], ratio))

\* terms extended by the products of its last term with ratio, ratio^2, ..:
\* the terms lo..hi, each the float product of the term before with ratio
RECURSIVE FGeometric(_, _, _, _)
FGeometric(ratio, lo, hi, terms) ==
    IF hi < lo THEN terms
    ELSE FGeometricTerm(ratio, FGeometric(ratio, lo, hi - 1, terms))

\* the powers b^0 .. b^20 as the float products give them
Powers(b) == FGeometric(b, 1, MaxRounds, <<FInt(1)>>)

\* the same with math.floor for math.ceil: the greatest n with b^n >= x
FloorLogFromPowers(x, powers) ==
    IF \A n \in 0..(MaxRounds - 1) : FLe(x, powers[n + 2]) THEN MaxRounds
    ELSE CHOOSE n \in 0..(MaxRounds - 1) :
             /\ FLt(powers[n + 2], x)
             /\ \A k \in 0..(n - 1) : FLe(x, powers[k + 2])

FloorLogRatioCapped(x, b) == FloorLogFromPowers(x, Powers(b))

\* the least n with b^n <= x, or 20 when there is none below
CeilLogFromPowers(x, powers) ==
    IF \A n \in 0..(MaxRounds - 1) : FLt(x, powers[n + 1]) THEN MaxRounds
    ELSE CHOOSE n \in 0..(MaxRounds - 1) :
             /\ FLe(powers[n + 1], x)
             /\ \A k \in 0..(n - 1) : FLt(x, powers[k + 1])

\* min(math.ceil(math.log(x) / math.log(b)), 20) for floats 0 < x <= 1 and
\* 0 < b < 1
CeilLogRatioCapped(x, b) == CeilLogFromPowers(x, Powers(b))

(***************************************************************************)
(* Enhancement 2: convergence prediction.  The returned dictionary holds   *)
(* values rounded to three places; each is written as its count of         *)
(* thousandths.  A call that raises returns no dictionary.                 *)
(***************************************************************************)
MaxTrajectory == 15

\* which arm of the if / elif / else runs
ConvergenceBranch(ethical_gap, alpha) ==
    IF FLt(ethical_gap, Lit(10)) THEN "below_threshold"
    ELSE IF FLt(alpha, Lit(30)) THEN "below_floor"
    ELSE "logarithmic"

ConvergenceRounds(branch, ethical_gap, alpha) ==
    CASE branch = "below_threshold" -> 1
      [] branch = "below_floor"     -> 99
      [] branch = "logarithmic"     ->
            CeilLogRatioCapped(FDiv(Lit(10), FMax(ethical_gap, Lit(1))),
                               FSub(FInt(1), FMul(alpha, Lit(30))))

ConvergenceProbability(branch, alpha, rounds) ==
    CASE branch = "below_threshold" -> Lit(95)
      [] branch = "below_floor"     -> Lit(15)
      [] branch = "logarithmic"     ->
            FSub(FInt(1), FExpNeg(FMul(FMul(alpha, FInt(rounds)), Lit(15))))

\* the entry a pass appends, progress being 1 - current_gap/ethical_gap
TrajectoryEntry(ethical_a, ethical_b, r, current_gap, progress) ==
    IF FIsZero(progress)
    THEN [round      |-> r,
          gap        |-> FRoundDec(current_gap, 1000),
          position_a |-> FRoundDec(ethical_a, 1000),
          position_b |-> FRoundDec(ethical_b, 1000)]
    ELSE [round      |-> r,
          gap        |-> FRoundDec(current_gap, 1000),
          position_a |-> FRoundDec(FAdd(ethical_a,
                             FMul(FMul(FSub(ethical_b, ethical_a), progress), Lit(50))),
                                   1000),
          position_b |-> FRoundDec(FSub(ethical_b,
                             FMul(FMul(FSub(ethical_b, ethical_a), progress), Lit(50))),
                                   1000)]

\* the loop: current_gap is multiplied by decay in each pass, gaps[r + 1]
\* being its value in pass r; the division by a zero gap raises in the
\* first pass, before anything is appended
TrajectoryFromGaps(ethical_a, ethical_b, ethical_gap, steps, gaps) ==
    IF FIsZero(ethical_gap)
    THEN [raised |-> "ZeroDivisionError", trajectory |-> <<>>]
    ELSE [raised |-> "none",
          trajectory |->
              [r \in 1..steps |->
                  TrajectoryEntry(ethical_a, ethical_b, r, gaps[r + 1],
                                  FSub(FInt(1), FDiv(gaps[r + 1], ethical_gap)))]]

Trajectory(ethical_a, ethical_b, ethical_gap, decay, steps) ==
    TrajectoryFromGaps(ethical_a, ethical_b, ethical_gap, steps,
                       FGeometric(decay, 1, steps, <<ethical_gap>>))

predict_convergence_timeline(self, country_a, country_b, policy) ==
    LET Coop(pattern) ==
            FMul(Lit(pattern.consensus_tendency),
                 FSub(FInt(1), FMul(Lit(pattern.debate_intensity), Lit(50))))
        Return(ethical_gap, alpha, rounds, probability, loop) ==
            IF loop.raised # "none"
            THEN [raised |-> loop.raised, value |-> <<>>]
            ELSE [raised |-> "none",
                  value  |-> [expected_rounds     |-> rounds,
                              probability_success |-> FRoundDec(probability, 1000),
                              initial_gap         |-> FRoundDec(ethical_gap, 1000),
                              convergence_rate    |-> FRoundDec(alpha, 1000),
                              trajectory          |-> loop.trajectory]]
        WithRounds(ethical_a, ethical_b, ethical_gap, alpha, branch, rounds) ==
            Return(ethical_gap, alpha, rounds,
                   ConvergenceProbability(branch, alpha, rounds),
                   Trajectory(ethical_a, ethical_b, ethical_gap,
                              FSub(FInt(1), FMul(alpha, Lit(30))),
                              IF rounds < MaxTrajectory THEN rounds ELSE MaxTrajectory))
        WithBranch(ethical_a, ethical_b, ethical_gap, alpha, branch) ==
            WithRounds(ethical_a, ethical_b, ethical_gap, alpha, branch,
                       ConvergenceRounds(branch, ethical_gap, alpha))
        WithGap(ethical_a, ethical_b, ethical_gap, alpha) ==
            WithBranch(ethical_a, ethical_b, ethical_gap, alpha,
                       ConvergenceBranch(ethical_gap, alpha))
        WithScores(ethical_a, ethical_b, alpha) ==
            WithGap(ethical_a, ethical_b, FAbs(FSub(ethical_a, ethical_b)), alpha)
    IN  WithScores(calculate_ethical_alignment(self, country_a, policy),
                   calculate_ethical_alignment(self, country_b, policy),
                   FDiv(FAdd(Coop(get_argumentation_pattern(self, country_a)),
                             Coop(get_argumentation_pattern(self, country_b))), FInt(2)))

(***************************************************************************)
(* DataIngress: what an endpoint can answer, and what each fetch method    *)
(* makes of it.  Timestamps are readings of the clock, in hours.           *)
(***************************************************************************)
\* parsed JSON bodies, and None
JObject(members) == [type |-> "object", value |-> members]

JArray(items) == [type |-> "array", value |-> items]

None == [type |-> "None", value |-> <<>>]

\* a body response.json() cannot parse
NotJson == [type |-> "not_json", value |-> <<>>]

\* Python truth of a parsed body: None, {} and [] are false
Truthy(data) == data.type \in {"object", "array"} /\ DOMAIN data.value # {}

\* the outcomes of requests.get
HttpResponse(status_code, body) == [kind |-> "response", status_code |-> status_code, body |-> body]

HttpTimeout == [kind |-> "Timeout", status_code |-> 0, body |-> NotJson]

HttpConnectionError == [kind |-> "ConnectionError", status_code |-> 0, body |-> NotJson]

Sources == <<"oecd", "privacy_international", "parlamint">>

cache_key(src) ==
    CASE src = "oecd"                  -> "oecd_data"
      [] src = "privacy_international" -> "privacy_data"
      [] src = "parlamint"             -> "parlamint_data"

\* hours a cached entry of the source is served for
cache_hours(src) ==
    CASE src = "oecd"                  -> 24
      [] src = "privacy_international" -> 168
      [] src = "parlamint"             -> 168

\* the name each fetch method gives its table
table_key(src) ==
    CASE src = "oecd"                  -> "principles"
      [] src = "privacy_international" -> "scores"
      [] src = "parlamint"             -> "patterns"

static_table(src) ==
    CASE src = "oecd"                  -> static_fallback.oecd_principles
      [] src = "privacy_international" -> static_fallback.privacy_scores
      [] src = "parlamint"             -> static_fallback.argumentation_patterns

\* api_metadata of the branch "if data:"; raises when data has no .get
live_metadata(src, data, t) ==
    CASE src = "oecd" ->
            [source       |-> "OECD.AI Policy Observatory",
             last_updated |-> t,
             version      |-> Get(data.value, "version", "2.0"),
             signatories  |-> Get(data.value, "signatories", 42)]
      [] src = "privacy_international" ->
            [source            |-> "Privacy International",
             last_updated      |-> t,
             methodology       |-> "State of Privacy Index 2023",
             countries_covered |-> Cardinality(DOMAIN static_fallback.privacy_scores)]
      [] src = "parlamint" ->
            [source              |-> "ParlaMint 4.0 Corpus",
             last_updated        |-> t,
             corpus_version      |-> "4.0",
             parliaments_covered |-> 29,
             time_period         |-> "2015-2024"]

\* the else branch with the metadata of the if branch
fallback_metadata_unmarked(src, t) == live_metadata(src, None, t)

\* api_metadata of the branch "else:"
fallback_metadata(src, t) ==
    CASE src = "oecd" ->
            [source       |-> "OECD.AI Policy Observatory (Fallback Data)",
             last_updated |-> t,
             version      |-> "2.0",
             signatories  |-> 42,
             data_status  |-> "static_fallback"]
      [] src = "privacy_international" ->
            [source            |-> "Privacy International (Fallback Data)",
             last_updated      |-> t,
             methodology       |-> "State of Privacy Index 2023",
             countries_covered |-> Cardinality(DOMAIN static_fallback.privacy_scores),
             data_status       |-> "static_fallback"]
      [] src = "parlamint" ->
            [source              |-> "ParlaMint 4.0 Corpus (Fallback Data)",
             last_updated        |-> t,
             corpus_version      |-> "4.0",
             parliaments_covered |-> 29,
             time_period         |-> "2015-2024",
             data_status         |-> "static_fallback"]

\* the table taken from the response when it carries one
fetched_table_from_response(src, data) ==
    IF data.type = "object" THEN Get(data.value, table_key(src), static_table(src))
    ELSE static_table(src)

\* the table a fetch method puts in its result
fetched_table(src, data) == static_table(src)

\* the dictionary a fetch method returns
result_dict(src, table, api_metadata) ==
    CASE src = "oecd"                  -> [principles |-> table, api_metadata |-> api_metadata]
      [] src = "privacy_international" -> [scores     |-> table, api_metadata |-> api_metadata]
      [] src = "parlamint"             -> [patterns   |-> table, api_metadata |-> api_metadata]

\* processed_data of a fetch method, from what fetch_with_retry returned at
\* time t; only fetch_oecd_data calls data.get, which a list does not have
processed_data(src, data, t) ==
    IF ~Truthy(data)
    THEN [raised |-> "none",
          value  |-> result_dict(src, static_table(src), fallback_metadata(src, t))]
    ELSE IF src = "oecd" /\ data.type # "object"
    THEN [raised |-> "AttributeError", value |-> <<>>]
    ELSE [raised |-> "none",
          value  |-> result_dict(src, fetched_table(src, data), live_metadata(src, data, t))]

\* self.narrow_factors: per broad capability its factors, in the order of the
\* dictionary, scores in hundredths
narrow_factors ==
    [c \in {"STI", "ESI", "IIC"} |->
        CASE c = "STI" ->
                <<[factor |-> "Player Identification Precision", score |-> 70],
                  [factor |-> "Geopolitical Risk Detection", score |-> 75],
                  [factor |-> "Actor Position Mapping", score |-> 65],
                  [factor |-> "Threat Landscape Assessment", score |-> 70],
                  [factor |-> "Pre-Dilemma Identification", score |-> 68],
                  [factor |-> "Asymmetric Information Processing", score |-> 72]>>
          [] c = "ESI" ->
                <<[factor |-> "Dilemma Recognition Sensitivity", score |-> 60],
                  [factor |-> "Confrontation Diagramming", score |-> 65],
                  [factor |-> "What-if Scenario Modeling", score |-> 70],
                  [factor |-> "Treaty Risk Simulation", score |-> 68],
                  [factor |-> "Adaptive Governance Model Exploration", score |-> 62],
                  [factor |-> "Defection/Backsliding Prediction", score |-> 58]>>
          [] c = "IIC" ->
                <<[factor |-> "Binding Treaty Architecture", score |-> 68],
                  [factor |-> "Accountability Model Design", score |-> 72],
                  [factor |-> "Compliance Trigger Mechanism", score |-> 55],
                  [factor |-> "Escalation Ladder Construction", score |-> 65],
                  [factor |-> "Norm Enforcement Systems", score |-> 60]>>]

\* self.data_quality, in hundredths
data_quality ==
    [c \in {"USA", "GBR", "CHN", "JPN", "IND", "BRA", "ARE"} |->
        CASE c = "USA" -> 90 [] c = "GBR" -> 85 [] c = "CHN" -> 60 [] c = "JPN" -> 82
          [] c = "IND" -> 70 [] c = "BRA" -> 68 [] c = "ARE" -> 65]

\* self.influence_network, in tenths
influence_network ==
    [c \in {"USA", "GBR", "CHN", "JPN", "IND", "BRA", "ARE"} |->
        CASE c = "USA" -> [t \in {"GBR", "JPN", "IND", "BRA"} |->
                              CASE t = "GBR" -> 8 [] t = "JPN" -> 7 [] t = "IND" -> 5
                                [] t = "BRA" -> 4]
          [] c = "GBR" -> [t \in {"USA", "JPN", "IND", "BRA", "ARE"} |->
                              CASE t = "USA" -> 6 [] t = "JPN" -> 5 [] t = "IND" -> 6
                                [] t = "BRA" -> 5 [] t = "ARE" -> 4]
          [] c = "CHN" -> [t \in {"JPN", "IND", "BRA", "ARE"} |->
                              CASE t = "JPN" -> 3 [] t = "IND" -> 4 [] t = "BRA" -> 5
                                [] t = "ARE" -> 6]
          [] c = "JPN" -> [t \in {"USA", "GBR", "IND"} |->
                              CASE t = "USA" -> 4 [] t = "GBR" -> 3 [] t = "IND" -> 4]
          [] c = "IND" -> [t \in {"USA", "GBR", "JPN", "BRA", "ARE"} |->
                              CASE t = "USA" -> 3 [] t = "GBR" -> 4 [] t = "JPN" -> 3
                                [] t = "BRA" -> 5 [] t = "ARE" -> 4]
          [] c = "BRA" -> [t \in {"USA", "IND", "ARE"} |->
                              CASE t = "USA" -> 3 [] t = "IND" -> 4 [] t = "ARE" -> 5]
          [] c = "ARE" -> [t \in {"CHN", "IND", "BRA"} |->
                              CASE t = "CHN" -> 4 [] t = "IND" -> 3 [] t = "BRA" -> 3]]

\* self.historical_scenarios, in the order of the dictionary
historical_scenarios ==
    <<[scenario |-> "Montreal Protocol 1987", actors |-> <<"USA", "GBR", "CHN", "IND">>,
       power_asymmetry |-> 60, issue_salience |-> 90, time_pressure |-> 70,
       outcome |-> "success", success_rate |-> 96,
       key_lesson |-> "Phased implementation with technology transfer",
       features |-> <<60, 90, 70, 80>>],
      [scenario |-> "SALT Treaties 1972", actors |-> <<"USA", "CHN">>,
       power_asymmetry |-> 50, issue_salience |-> 95, time_pressure |-> 80,
       outcome |-> "partial_success", success_rate |-> 68,
       key_lesson |-> "Verification mechanisms critical for trust",
       features |-> <<50, 95, 80, 70>>],
      [scenario |-> "Paris Climate Agreement 2015",
       actors |-> <<"USA", "GBR", "CHN", "IND", "BRA">>,
       power_asymmetry |-> 70, issue_salience |-> 85, time_pressure |-> 60,
       outcome |-> "success", success_rate |-> 82,
       key_lesson |-> "Nationally determined contributions enabled consensus",
       features |-> <<70, 85, 60, 75>>],
      [scenario |-> "Nuclear Non-Proliferation Treaty 1968",
       actors |-> <<"USA", "CHN", "GBR", "JPN">>,
       power_asymmetry |-> 80, issue_salience |-> 95, time_pressure |-> 85,
       outcome |-> "success", success_rate |-> 88,
       key_lesson |-> "Security guarantees essential for non-nuclear states",
       features |-> <<80, 95, 85, 87>>],
      [scenario |-> "Kyoto Protocol 1997", actors |-> <<"USA", "GBR", "JPN", "CHN", "IND">>,
       power_asymmetry |-> 65, issue_salience |-> 80, time_pressure |-> 70,
       outcome |-> "partial_success", success_rate |-> 58,
       key_lesson |-> "Binding targets without major emitters led to limited impact",
       features |-> <<65, 80, 70, 68>>]>>

(***************************************************************************)
(* The client object BachGovernanceAPI.__init__ builds from the three      *)
(* fetched sources.                                                        *)
(***************************************************************************)
BachGovernanceAPI(phase2_data) ==
    [oecd_principles        |-> phase2_data.oecd.principles,
     privacy_scores         |-> phase2_data.privacy_international.scores,
     argumentation_patterns |-> phase2_data.parlamint.patterns,
     data_sources_metadata  |-> [oecd                  |-> phase2_data.oecd.api_metadata,
                                 privacy_international |-> phase2_data.privacy_international.api_metadata,
                                 parlamint             |-> phase2_data.parlamint.api_metadata],
     oecd_adoption          |-> oecd_adoption,
     narrow_factors         |-> narrow_factors,
     data_quality           |-> data_quality,
     influence_network      |-> influence_network,
     historical_scenarios   |-> historical_scenarios,
     kalman_states          |-> EmptyDict]

\* the three sources when no endpoint answered, fetched at hour 0
FallbackData ==
    [src \in {"oecd", "privacy_international", "parlamint"} |->
        processed_data(src, None, 0).value]

(***************************************************************************)
(* pages/simulation.py: the sidebar's actors and their country codes       *)
(***************************************************************************)
country_to_iso ==
    [a \in {"USA", "China", "EU", "India", "Japan", "Russia", "Brazil", "UAE"} |->
        CASE a = "USA"    -> "USA"
          [] a = "China"  -> "CHN"
          [] a = "EU"     -> "GBR"
          [] a = "India"  -> "IND"
          [] a = "Japan"  -> "JPN"
          [] a = "Russia" -> "CHN"
          [] a = "Brazil" -> "BRA"
          [] a = "UAE"    -> "ARE"]

regional_actors ==
    {"MENA", "APAC / Asia-Pacific", "African Union (AU)", "BRICS", "GCC", "ASEAN+",
     "Five Eyes (FVEY)"}

all_actors == DOMAIN country_to_iso \cup regional_actors

policies == {"AI Ethics", "AI Safety", "Data Privacy", "Export Controls", "R&D Investment"}

(***************************************************************************)
(* State                                                                   *)
(***************************************************************************)
VARIABLES
    conv_call,      \* the arguments of a convergence prediction: two actors, a policy
    conv_ret,       \* what predict_convergence_timeline did, once it has run
    now,            \* the clock, in hours
    cache,          \* DataIngress.cache
    last_update,    \* DataIngress.last_update
    call,           \* the ingress operation under way and where it stands
    outcome,        \* how the last finished ingress operation ended
    fetched,        \* the last pass through fetch_with_retry and what the fetch method made of it
    client,         \* the BachGovernanceAPI object, once constructed
    session_state,  \* st.session_state of each browser session
    shown,          \* the last script run of each session: its page, what set it off, what it rendered
    kalman_users,   \* for each country code, the sessions that have read or written its Kalman state
    api_call,       \* the method call under study and its arguments
    api_ret,        \* what the call did, once it has run
    trust_states,   \* the TrustState object of each agent
    engine,         \* the TrustDynamicsEngine object
    coalition_mgr,  \* the CoalitionManager object
    timestep        \* the number of calls made on the trust objects

convVars == <<conv_call, conv_ret>>

ingressVars == <<now, cache, last_update, call, outcome, fetched, client>>

sessVars == <<session_state, shown, kalman_users>>

apiVars == <<api_call, api_ret>>

trustVars == <<trust_states, engine, coalition_mgr, timestep>>

vars == <<conv_call, conv_ret, now, cache, last_update, call, outcome, fetched, client,
          session_state, shown, kalman_users, api_call, api_ret,
          trust_states, engine, coalition_mgr, timestep>>

\* the browser sessions of the model
Sessions == {"s1", "s2"}

\* a session in which no script has run yet
NoRun == [page |-> "none", event |-> "none", password |-> "", past_gate |-> FALSE,
          rendered |-> {},
          kalman_tab |-> [iso |-> "none", initialized |-> FALSE],
          next |-> [page |-> "none", kind |-> "none"]]

\* no session has opened a page
SessIdle ==
    /\ session_state = [s \in Sessions |-> EmptyDict]
    /\ shown = [s \in Sessions |-> NoRun]
    /\ kalman_users = EmptyDict

\* no method call is under study
ApiIdle ==
    /\ api_call = [method |-> "none"]
    /\ api_ret = [raised |-> "pending", value |-> <<>>]

\* no trust object has been made
TrustIdle ==
    /\ trust_states = EmptyDict
    /\ engine = EmptyDict
    /\ coalition_mgr = EmptyDict
    /\ timestep = 0

(***************************************************************************)
(* DataIngress and the constructor as a state machine: one step per        *)
(* answer of requests.get, each running the code up to the next request    *)
(* or to the end of the operation.                                         *)
(***************************************************************************)
max_retries == 3

\* the clock advances by half days, MaxTicks times at most
TickHours == 12

MaxTicks == 2

IdleCall ==
    [pc |-> "idle", op |-> "none", force_refresh |-> FALSE, todo |-> <<>>,
     result |-> EmptyDict, attempt |-> 0, slept |-> <<>>]

NoOutcome == [op |-> "none", raised |-> "none", value |-> EmptyDict]

NoFetch == [src |-> "none", attempts |-> 0, failures |-> 0, slept |-> <<>>,
            raised |-> "none", value |-> <<>>]

NoClient == [built |-> FALSE, obj |-> <<>>]

IngressInit ==
    /\ now = 0
    /\ cache = EmptyDict
    /\ last_update = EmptyDict
    /\ call = IdleCall
    /\ outcome = NoOutcome
    /\ fetched = NoFetch
    /\ client = NoClient

\* (datetime.now() - then).seconds: the days of the difference are dropped
timedelta_seconds(then) == ((now - then) * 3600) % 86400

\* the cache test that opens each fetch method
served_from_cache(src, force_refresh, c, lu) ==
    /\ ~force_refresh
    /\ Has(c, cache_key(src))
    /\ timedelta_seconds(lu[cache_key(src)]) < cache_hours(src) * 3600

\* the fetch methods of todo that return their cached entry, up to the first
\* one that sends a request
RECURSIVE run_to_request(_, _, _, _, _)
run_to_request(todo, result, force_refresh, c, lu) ==
    IF todo = <<>> THEN [todo |-> todo, result |-> result]
    ELSE IF served_from_cache(Head(todo), force_refresh, c, lu)
    THEN run_to_request(Tail(todo), Put(result, Head(todo), c[cache_key(Head(todo))]),
                        force_refresh, c, lu)
    ELSE [todo |-> todo, result |-> result]

\* the operation goes on after its fetch methods so far: to the next request,
\* or to its end
Proceed(op, force_refresh, run) ==
    IF run.todo = <<>>
    THEN /\ call' = IdleCall
         /\ outcome' = [op |-> op, raised |-> "none", value |-> run.result]
         /\ client' = IF op = "__init__"
                      THEN [built |-> TRUE, obj |-> BachGovernanceAPI(run.result)]
                      ELSE client
    ELSE /\ call' = [pc |-> "request", op |-> op, force_refresh |-> force_refresh,
                     todo |-> run.todo, result |-> run.result, attempt |-> 0,
                     slept |-> <<>>]
         /\ outcome' = NoOutcome
         /\ UNCHANGED client

\* BachGovernanceAPI(): a new DataIngress, then get_all_phase2_data()
Construct ==
    /\ call.pc = "idle"
    /\ ~client.built
    /\ cache' = EmptyDict
    /\ last_update' = EmptyDict
    /\ fetched' = NoFetch
    /\ Proceed("__init__", FALSE, run_to_request(Sources, EmptyDict, FALSE, EmptyDict, EmptyDict))
    /\ UNCHANGED now

\* client.data_ingress.get_all_phase2_data(force_refresh)
get_all_phase2_data(force_refresh) ==
    /\ call.pc = "idle"
    /\ client.built
    /\ Proceed("get_all_phase2_data", force_refresh,
               run_to_request(Sources, EmptyDict, force_refresh, cache, last_update))
    /\ fetched' = NoFetch
    /\ UNCHANGED <<now, cache, last_update>>

\* a backoff that does not grow with the attempt
sleep_after_constant(response, attempt) ==
    IF response.kind = "response" /\ response.status_code = 429 THEN <<5>>
    ELSE IF attempt < max_retries - 1 THEN <<1>>
    ELSE <<>>

\* what an attempt that did not return data sleeps before the next one
sleep_after(response, attempt) ==
    IF response.kind = "response" /\ response.status_code = 429
    THEN <<Pow2(attempt) * 5>>
    ELSE IF attempt < max_retries - 1 THEN <<Pow2(attempt)>>
    ELSE <<>>

\* the attempt returns response.json()
returns_json(response) ==
    /\ response.kind = "response"
    /\ response.status_code = 200
    /\ response.body.type # "not_json"

\* fetch_with_retry has returned data to the fetch method of the source
FetchReturns(src, data, attempts, failures, slept) ==
    LET pd == processed_data(src, data, now)
    IN  /\ fetched' = [src |-> src, attempts |-> attempts, failures |-> failures,
                       slept |-> slept, raised |-> pd.raised, value |-> pd.value]
        /\ IF pd.raised # "none"
           THEN /\ call' = IdleCall
                /\ outcome' = [op |-> call.op, raised |-> pd.raised, value |-> EmptyDict]
                /\ UNCHANGED <<cache, last_update, client>>
           ELSE /\ cache' = Put(cache, cache_key(src), pd.value)
                /\ last_update' = Put(last_update, cache_key(src), now)
                /\ Proceed(call.op, call.force_refresh,
                           run_to_request(Tail(call.todo), Put(call.result, src, pd.value),
                                          call.force_refresh,
                                          Put(cache, cache_key(src), pd.value),
                                          Put(last_update, cache_key(src), now)))

\* a loop that makes one pass more than max_retries
fetch_attempt_once_more(attempt, response) ==
    IF returns_json(response)
    THEN [returned |-> TRUE, value |-> response.body, failed |-> FALSE, slept |-> <<>>]
    ELSE [returned |-> ~(attempt < max_retries), value |-> None, failed |-> TRUE,
          slept |-> sleep_after(response, attempt)]

\* one pass of the loop of fetch_with_retry, requests.get ending with the
\* given outcome: whether fetch_with_retry returns after it, what it then
\* returns, and what it has slept
fetch_attempt(attempt, response) ==
    IF returns_json(response)
    THEN [returned |-> TRUE, value |-> response.body, failed |-> FALSE, slept |-> <<>>]
    ELSE [returned |-> ~(attempt + 1 < max_retries), value |-> None, failed |-> TRUE,
          slept |-> sleep_after(response, attempt)]

\* requests.get of the current attempt ends with the given outcome
HttpRespond(response) ==
    /\ call.pc = "request"
    /\ LET pass == fetch_attempt(call.attempt, response)
       IN  IF pass.returned
           THEN FetchReturns(Head(call.todo), pass.value, call.attempt + 1,
                             IF pass.failed THEN call.attempt + 1 ELSE call.attempt,
                             call.slept \o pass.slept)
           ELSE /\ call' = [call EXCEPT !.attempt = call.attempt + 1,
                                        !.slept = call.slept \o pass.slept]
                /\ UNCHANGED <<cache, last_update, outcome, fetched, client>>
    /\ UNCHANGED now

\* 'fresh' if age_hours < 24 else 'stale' if age_hours < 168 else 'very_stale',
\* age_hours being (datetime.now() - timestamp).seconds / 3600
freshness(then) ==
    IF timedelta_seconds(then) < 24 * 3600 THEN "fresh"
    ELSE IF timedelta_seconds(then) < 168 * 3600 THEN "stale"
    ELSE "very_stale"

\* client.data_ingress.get_data_freshness_report(); the hours of the model
\* are whole, so round(age_hours, 2) is age_hours
get_data_freshness_report ==
    /\ call.pc = "idle"
    /\ client.built
    /\ outcome' =
           [op |-> "get_data_freshness_report", raised |-> "none",
            value |->
                [cache_status |->
                     IF DOMAIN last_update = {} THEN EmptyDict
                     ELSE [key \in DOMAIN last_update |->
                              [last_updated |-> last_update[key],
                               age_hours |-> timedelta_seconds(last_update[key]) \div 3600,
                               status |-> freshness(last_update[key])]],
                 total_cached_items |-> Cardinality(DOMAIN cache)]]
    /\ UNCHANGED <<now, cache, last_update, call, fetched, client>>

\* time passes between operations (an operation takes minutes at most)
Tick ==
    /\ call.pc = "idle"
    /\ now + TickHours <= MaxTicks * TickHours
    /\ now' = now + TickHours
    /\ UNCHANGED <<cache, last_update, call, outcome, fetched, client>>

\* the answers an endpoint can give
HttpOutcomes ==
    {HttpResponse(200, JObject([version |-> "3.0", signatories |-> 47,
                                principles |-> [transparency |-> [weight |-> 50, category |-> "technical"]],
                                scores     |-> [USA |-> [overall |-> 10]],
                                patterns   |-> [USA |-> [consensus_tendency |-> 10, debate_intensity |-> 90]]])),
     HttpResponse(200, JObject(EmptyDict)),
     HttpResponse(200, JArray(<<1>>)),
     HttpResponse(200, NotJson),
     HttpResponse(429, NotJson),
     HttpResponse(500, NotJson),
     HttpTimeout,
     HttpConnectionError}

IngressNext ==
    \/ Construct /\ UNCHANGED <<convVars, sessVars, apiVars, trustVars>>
    \/ \E force_refresh \in BOOLEAN : get_all_phase2_data(force_refresh) /\ UNCHANGED <<convVars, sessVars, apiVars, trustVars>>
    \/ \E response \in HttpOutcomes : HttpRespond(response) /\ UNCHANGED <<convVars, sessVars, apiVars, trustVars>>
    \/ get_data_freshness_report /\ UNCHANGED <<convVars, sessVars, apiVars, trustVars>>
    \/ Tick /\ UNCHANGED <<convVars, sessVars, apiVars, trustVars>>

\* C23: the freshness report labels each key of last_update by the time
\* elapsed since its last_update, 'fresh' under 24 hours, 'stale' from 24
\* to under 168 hours, 'very_stale' from 168 hours on, and
\* total_cached_items is the number of cache entries
C23_FreshnessByElapsedTime ==
    [][(outcome'.op = "get_data_freshness_report" /\ now' = now)
          => /\ outcome'.value.total_cached_items = Cardinality(DOMAIN cache')
             /\ DOMAIN outcome'.value.cache_status = DOMAIN last_update'
             /\ \A key \in DOMAIN last_update' :
                    outcome'.value.cache_status[key].status =
                        (IF now' - last_update'[key] < 24 THEN "fresh"
                         ELSE IF now' - last_update'[key] < 168 THEN "stale"
                         ELSE "very_stale")]_vars

\* no convergence prediction is under way
ConvIdle ==
    /\ conv_call = [actor1 |-> "none", actor2 |-> "none", policy |-> "none"]
    /\ conv_ret = [raised |-> "pending", value |-> <<>>]

IngressSpecInit == IngressInit /\ ConvIdle /\ SessIdle /\ ApiIdle /\ TrustIdle

SpecIngress == IngressSpecInit /\ [][IngressNext]_vars

\* C3: when all max_retries attempts of fetch_with_retry have failed, the
\* fetch method returns the static fallback table, and its api_metadata
\* carries data_status = 'static_fallback'.
C3_ExhaustedRetriesGiveMarkedFallback ==
    (fetched.src # "none" /\ fetched.failures = max_retries)
        => /\ fetched.raised = "none"
           /\ fetched.value[table_key(fetched.src)] = static_table(fetched.src)
           /\ Has(fetched.value.api_metadata, "data_status")
           /\ fetched.value.api_metadata.data_status = "static_fallback"

\* the last source's fetch has used up its attempts, one of them rate limited
C3_Witness ==
    /\ fetched.src = "parlamint"
    /\ fetched.failures = max_retries
    /\ fetched.attempts = max_retries
    /\ Len(fetched.slept) = max_retries

\* C4: whatever the endpoints answer, get_all_phase2_data and the
\* constructor end by returning: no exception reaches their caller.
C4_NoExceptionReachesCaller == outcome.raised = "none"

\* the tables of everything the ingress layer holds or has handed out
TablesAreStatic(phase2_data) ==
    \A i \in 1..Len(Sources) :
        Has(phase2_data, Sources[i])
            => phase2_data[Sources[i]][table_key(Sources[i])] = static_table(Sources[i])

\* C10: the principles, scores and patterns tables a fetch method returns,
\* caches or hands to the client are the static fallback tables, whatever
\* the endpoint answered.
C10_TablesAreStaticWhateverTheResponse ==
    /\ TablesAreStatic(outcome.value)
    /\ TablesAreStatic(call.result)
    /\ \A i \in 1..Len(Sources) :
          Has(cache, cache_key(Sources[i]))
              => cache[cache_key(Sources[i])][table_key(Sources[i])] = static_table(Sources[i])
    /\ (fetched.src # "none" /\ fetched.raised = "none")
          => fetched.value[table_key(fetched.src)] = static_table(fetched.src)
    /\ client.built
          => /\ client.obj.oecd_principles = static_fallback.oecd_principles
             /\ client.obj.privacy_scores = static_fallback.privacy_scores
             /\ client.obj.argumentation_patterns = static_fallback.argumentation_patterns

\* a client built from three live answers that carried tables of their own
C10_Witness ==
    /\ client.built
    /\ outcome.op = "__init__"
    /\ \A i \in 1..Len(Sources) :
          ~Has(client.obj.data_sources_metadata[Sources[i]], "data_status")
    /\ client.obj.data_sources_metadata.oecd.version = "3.0"

\* hours since the cached entry of the source was written
elapsed_hours(src, at, lu) == at - lu[cache_key(src)]

\* C22: the cached entry of a source is served without a request only
\* while less than its limit (24 hours for OECD, 168 for the other two) has
\* passed since last_update: a request sent without force_refresh for a
\* source that has a cached entry is sent at or after the limit, and when
\* get_all_phase2_data has returned no entry is at or past its limit
C22_CacheExpiresAtItsLimit ==
    [][/\ (call'.pc = "request" /\ ~call'.force_refresh
               /\ Has(cache', cache_key(Head(call'.todo))))
              => elapsed_hours(Head(call'.todo), now', last_update') >= cache_hours(Head(call'.todo))
       /\ (call'.pc = "idle" /\ now' = now /\ outcome'.raised = "none"
               /\ outcome'.op \in {"__init__", "get_all_phase2_data"})
              => \A i \in 1..Len(Sources) :
                     /\ Has(cache', cache_key(Sources[i]))
                     /\ elapsed_hours(Sources[i], now', last_update') < cache_hours(Sources[i])]_vars


(***************************************************************************)
(* Convergence tab: one prediction for a pair of actors                    *)
(***************************************************************************)
\* the eight countries of the sidebar and one regional bloc (every bloc is an
\* unknown country code to the API)
InputActors == DOMAIN country_to_iso \cup {"MENA"}

\* the five policies of the sidebar and one name the API does not know
InputPolicies == policies \cup {"Trade"}

ConvInit ==
    /\ conv_call \in [actor1 : InputActors, actor2 : InputActors, policy : InputPolicies]
    /\ conv_ret = [raised |-> "pending", value |-> <<>>]
    /\ IngressInit
    /\ SessIdle
    /\ TrustIdle
    /\ ApiIdle

PredictConvergence ==
    /\ conv_ret = [raised |-> "pending", value |-> <<>>]
    /\ LET iso1 == Get(country_to_iso, conv_call.actor1, conv_call.actor1)
           iso2 == Get(country_to_iso, conv_call.actor2, conv_call.actor2)
       IN  conv_ret' = predict_convergence_timeline(BachGovernanceAPI(FallbackData),
                                                    iso1, iso2, conv_call.policy)
    /\ UNCHANGED conv_call
    /\ UNCHANGED <<ingressVars, sessVars, apiVars, trustVars>>

ConvNext == PredictConvergence

SpecConvergence == ConvInit /\ [][ConvNext]_vars

\* the two ethical-alignment scores of the pending or finished prediction
ConvScore(actor) ==
    calculate_ethical_alignment(BachGovernanceAPI(FallbackData),
                                Get(country_to_iso, actor, actor), conv_call.policy)

\* C1: whenever the two sides' ethical-alignment scores are equal (which
\* includes the same country code on both sides), the prediction returns
\* expected_rounds = 1 and probability_success = 0.95.
C1_EqualScoresReturnOneRound ==
    (conv_ret.raised # "pending" /\ ConvScore(conv_call.actor1) = ConvScore(conv_call.actor2))
        => /\ conv_ret.raised = "none"
           /\ conv_ret.value.expected_rounds = 1
           /\ conv_ret.value.probability_success = 950

\* C2: every prediction that returns has probability_success in [0, 1] and
\* expected_rounds in [1, 20], for every pair of codes and every policy.
C2_ProbabilityAndRoundsInRange ==
    (conv_ret.raised # "pending" /\ conv_ret.raised = "none")
        => /\ conv_ret.value.probability_success \in 0..1000
           /\ conv_ret.value.expected_rounds \in 1..20

\* a prediction of the logarithmic branch has returned
C2_Witness ==
    /\ conv_ret.raised # "pending"
    /\ conv_ret.raised = "none"
    /\ conv_ret.value.expected_rounds >= 2
    /\ conv_ret.value.initial_gap >= 100

(***************************************************************************)
(* Enhancement 8: the Kalman filter kept per country in                    *)
(* BachGovernanceAPI.kalman_states                                         *)
(***************************************************************************)
\* Python round(x, ndigits) as a float, scale = 10^ndigits
PyRound(x, scale) == FDec(FRoundDec(x, scale), scale)

\* current_gwc of diagnose_capability_gap, before rounding
current_gwc(self, country_iso3) ==
    FAdd(FAdd(FMul(Lit(get_oecd_compliance(self, country_iso3).implementation_score), Lit(40)),
              FMul(Lit(get_privacy_score(self, country_iso3).overall), Lit(30))),
         FMul(Lit(get_argumentation_pattern(self, country_iso3).consensus_tendency), Lit(30)))

\* self.kalman_states after initialize_kalman_filter(country_iso3); the
\* filter starts from diagnose_capability_gap(country_iso3, 0.8)["current_gwc"],
\* which is round(current_gwc, 3) on both of its return paths
initialize_kalman_filter(self, country_iso3) ==
    LET Start(initial_gwc) ==
            Put(self.kalman_states, country_iso3,
                [x_hat   |-> initial_gwc,
                 P       |-> Lit(10),
                 Q       |-> Lit(1),
                 R       |-> Lit(5),
                 history |-> <<[step |-> 0, x_hat |-> initial_gwc, P |-> Lit(10)]>>])
    IN  Start(PyRound3(current_gwc(self, country_iso3)))

\* x_pred = A * x_hat + B * intervention_effect, A = 1.0, B = 0.1
kalman_x_pred(state, intervention_effect) ==
    FAdd(FMul(FInt(1), state.x_hat), FMul(Lit(10), intervention_effect))

\* P_pred = A * P * A + Q
kalman_P_pred(state) == FAdd(FMul(FMul(FInt(1), state.P), FInt(1)), state.Q)

\* a gain with the measurement noise left out of the divisor's sum
kalman_gain_over_noise(P_pred, R) == FDiv(FMul(P_pred, FInt(1)), R)

\* K = P_pred * C / (C * P_pred * C + R), C = 1.0
kalman_gain(P_pred, R) ==
    FDiv(FMul(P_pred, FInt(1)), FAdd(FMul(FMul(FInt(1), P_pred), FInt(1)), R))

\* x_hat_new = x_pred + K * (new_measurement - C * x_pred)
kalman_x_hat_new(x_pred, K, new_measurement) ==
    FAdd(x_pred, FMul(K, FSub(new_measurement, FMul(FInt(1), x_pred))))

\* P_new = (1 - K * C) * P_pred
kalman_P_new(K, P_pred) == FMul(FSub(FInt(1), FMul(K, FInt(1))), P_pred)

\* the state kalman_update leaves for the country, from the state it found
kalman_next_state(state, new_measurement, intervention_effect) ==
    LET Store(x_hat_new, P_new) ==
            [state EXCEPT !.x_hat = x_hat_new, !.P = P_new,
                          !.history = Append(state.history,
                                             [step |-> Len(state.history),
                                              x_hat |-> x_hat_new, P |-> P_new])]
        Update(x_pred, K, P_pred) ==
            Store(kalman_x_hat_new(x_pred, K, new_measurement), kalman_P_new(K, P_pred))
        Predict(x_pred, P_pred) == Update(x_pred, kalman_gain(P_pred, state.R), P_pred)
    IN  Predict(kalman_x_pred(state, intervention_effect), kalman_P_pred(state))

\* kalman_update(country_iso3, new_measurement, intervention_effect): the
\* dictionary it leaves in self.kalman_states and the dictionary it returns
kalman_update(self, country_iso3, new_measurement, intervention_effect) ==
    LET Return(state) ==
            [kalman_states |-> Put(self.kalman_states, country_iso3, state),
             value |-> [smoothed_estimate |-> PyRound(state.x_hat, 1000),
                        uncertainty       |-> PyRound(state.P, 1000),
                        confidence        |-> PyRound(FMul(FSub(FInt(1), state.P), FInt(100)), 10)]]
        From(states) ==
            Return(kalman_next_state(states[country_iso3], new_measurement,
                                     intervention_effect))
    IN  From(IF Has(self.kalman_states, country_iso3) THEN self.kalman_states
             ELSE initialize_kalman_filter(self, country_iso3))

(***************************************************************************)
(* Enhancement 6: historical pattern matching.  sklearn and numpy are not  *)
(* part of the repository; cosine_similarity is computed as sklearn        *)
(* defines it (rows normalised to unit length, then their dot product),    *)
(* with the sums taken from left to right, and round as numpy defines it   *)
(* for its floats.                                                         *)
(***************************************************************************)
\* the dot product of two rows of four floats
Dot(x, y) ==
    FAdd(FAdd(FAdd(FMul(x[1], y[1]), FMul(x[2], y[2])), FMul(x[3], y[3])),
         FMul(x[4], y[4]))

\* sklearn.preprocessing.normalize of one row: divided by its Euclidean
\* norm, a norm of zero being taken as one
normalize(x) ==
    LET By(norm) ==
            IF norm.m = <<>> THEN x
            ELSE <<FDiv(x[1], norm), FDiv(x[2], norm), FDiv(x[3], norm), FDiv(x[4], norm)>>
    IN  By(FSqrt(Dot(x, x)))

\* the feature rows of the scenarios, normalised
historical_unit_features ==
    [i \in 1..Len(historical_scenarios) |->
        normalize(<<Lit(historical_scenarios[i].features[1]),
                    Lit(historical_scenarios[i].features[2]),
                    Lit(historical_scenarios[i].features[3]),
                    Lit(historical_scenarios[i].features[4])>>)]

\* the integer nearest to x, ties to even (numpy.rint)
FRint(x) ==
    IF x.m = <<>> \/ x.e >= 0 THEN x
    ELSE FCanon(x.s, BShrRound(x.m, -x.e, FALSE), 0)

\* round(x, 3) of a numpy float: rint(x * 1000) / 1000
NpRound3(x) == FDiv(FRint(FMul(x, FInt(1000))), FInt(1000))

\* the elements of a list, as a set
SetOf(list) == {list[i] : i \in 1..Len(list)}

\* len(set(a) & set(b)) / len(set(a) | set(b))
actor_overlap(a, b) ==
    FDiv(FInt(Cardinality(SetOf(a) \cap SetOf(b))), FInt(Cardinality(SetOf(a) \cup SetOf(b))))

\* the entry matches.append adds for a scenario
historical_match(scenario_data, similarity, overlap) ==
    [scenario     |-> scenario_data.scenario,
     similarity   |-> NpRound3(similarity),
     relevance    |-> NpRound3(FAdd(FMul(similarity, Lit(70)), FMul(overlap, Lit(30)))),
     outcome      |-> scenario_data.outcome,
     success_rate |-> scenario_data.success_rate,
     key_lesson   |-> scenario_data.key_lesson,
     actors       |-> scenario_data.actors]

\* a sort that leaves the list as it is
unsorted(matches) == matches

\* matches.sort(key=lambda x: x["relevance"], reverse=True): by falling
\* relevance, entries of equal relevance in the order they had
sort_by_relevance(matches) ==
    LET Before(j, i) ==
            \/ FLt(matches[i].relevance, matches[j].relevance)
            \/ (j < i /\ matches[j].relevance = matches[i].relevance)
        Place(i) == 1 + Cardinality({j \in 1..Len(matches) : Before(j, i)})
    IN  [p \in 1..Len(matches) |-> matches[CHOOSE i \in 1..Len(matches) : Place(i) = p]]

\* match_historical_scenarios(current_actors, power_asymmetry, issue_salience, time_pressure)
match_historical_scenarios(self, current_actors, power_asymmetry, issue_salience, time_pressure) ==
    LET Matches(current) ==
            SubSeq([i \in 1..Len(self.historical_scenarios) |->
                       historical_match(self.historical_scenarios[i],
                                        Dot(current, historical_unit_features[i]),
                                        actor_overlap(current_actors,
                                                      self.historical_scenarios[i].actors))],
                   1, Len(self.historical_scenarios))
    IN  sort_by_relevance(
            Matches(normalize(<<power_asymmetry, issue_salience, time_pressure,
                                FDiv(FAdd(power_asymmetry, issue_salience), FInt(2))>>)))

(***************************************************************************)
(* Enhancement 4: multi-objective Pareto optimisation                      *)
(***************************************************************************)
\* the four metrics the dominance test compares
pareto_metrics ==
    {"ethical_alignment", "privacy_protection", "speed_to_agreement", "innovation_potential"}

\* the entry scenarios.append adds for a policy
pareto_scenario(self, country_a, country_b, policy) ==
    LET Entry(ethical_a, ethical_b, avg_privacy, speed) ==
            LET avg_ethical == FDiv(FAdd(ethical_a, ethical_b), FInt(2))
                innovation  == FSub(FInt(1), FAbs(FSub(ethical_a, ethical_b)))
            IN  [policy               |-> policy,
                 ethical_alignment    |-> PyRound3(avg_ethical),
                 privacy_protection   |-> PyRound3(avg_privacy),
                 speed_to_agreement   |-> PyRound3(speed),
                 innovation_potential |-> PyRound3(innovation),
                 composite_score      |->
                     PyRound3(FDiv(FAdd(FAdd(FAdd(avg_ethical, avg_privacy), speed),
                                        innovation), FInt(4)))]
    IN  Entry(calculate_ethical_alignment(self, country_a, policy),
              calculate_ethical_alignment(self, country_b, policy),
              FDiv(FAdd(Lit(get_privacy_score(self, country_a).overall),
                        Lit(get_privacy_score(self, country_b).overall)), FInt(2)),
              FDiv(FAdd(Lit(get_argumentation_pattern(self, country_a).consensus_tendency),
                        Lit(get_argumentation_pattern(self, country_b).consensus_tendency)),
                   FInt(2)))

\* a dominance test without its second half: at least as good on all four
dominates_without_strictly_better(s2, s1) ==
    \A k \in pareto_metrics : FLe(s1[k], s2[k])

\* the condition of the inner loop: s2 is at least as good as s1 on all four
\* metrics and better on one
dominates(s2, s1) ==
    /\ \A k \in pareto_metrics : FLe(s1[k], s2[k])
    /\ \E k \in pareto_metrics : FLt(s1[k], s2[k])

\* the entries of a list that pass a test, in the list's order
RECURSIVE Filter(_, _)
Filter(list, keep) ==
    IF list = <<>> THEN <<>>
    ELSE (IF keep[1] THEN <<Head(list)>> ELSE <<>>)
             \o Filter(Tail(list), Tail(keep))

\* max(list, key=lambda x: x["composite_score"]): the first entry no other
\* entry's score exceeds
max_composite_score(list) ==
    list[CHOOSE i \in 1..Len(list) :
            /\ \A j \in 1..Len(list) : FLe(list[j].composite_score, list[i].composite_score)
            /\ \A j \in 1..(i - 1) : list[j].composite_score # list[i].composite_score]

\* compute_pareto_scenarios(country_a, country_b, policy_options)
compute_pareto_scenarios(self, country_a, country_b, policy_options) ==
    LET Result(scenarios) ==
            LET Optimal(pareto_optimal) ==
                    IF pareto_optimal = <<>> /\ scenarios = <<>>
                    THEN [raised |-> "IndexError", value |-> <<>>]
                    ELSE [raised |-> "none",
                          value  |-> [all_scenarios  |-> scenarios,
                                      pareto_optimal |-> pareto_optimal,
                                      num_pareto     |-> Len(pareto_optimal),
                                      recommendation |->
                                          IF pareto_optimal # <<>>
                                          THEN max_composite_score(pareto_optimal)
                                          ELSE scenarios[1]]]
            IN  Optimal(Filter(scenarios,
                               [i \in 1..Len(scenarios) |->
                                   ~ \E j \in 1..Len(scenarios) :
                                         dominates(scenarios[j], scenarios[i])]))
    IN  Result(SubSeq([i \in 1..Len(policy_options) |->
                          pareto_scenario(self, country_a, country_b, policy_options[i])],
                      1, Len(policy_options)))

(***************************************************************************)
(* Enhancement 3: hierarchical capability gap diagnosis                    *)
(***************************************************************************)
\* Python round(x, ndigits) of a float of any size, scale = 10^ndigits: the
\* float nearest to the multiple of 1/scale nearest to x
PyRoundFloat(x, scale) ==
    LET Quotient(d) == FRound(x.s, d.q, -(5 * LBBits), d.r # 0)
        Nearest(n)  == IF n = <<>> THEN FZero
                       ELSE Quotient(BDivSmall(BShl(n, 5 * LBBits), scale))
    IN  IF x.m = <<>> THEN FZero
        ELSE IF x.e >= 0 THEN x
        ELSE Nearest(BShrRound(BMulSmall(x.m, scale), -x.e, FALSE))

\* broad_capabilities, in the order of the dictionary, in hundredths
broad_capabilities ==
    <<[name |-> "STI", score |-> 70, weight |-> 15],
      [name |-> "ESI", score |-> 63, weight |-> 18],
      [name |-> "IIC", score |-> 64, weight |-> 16],
      [name |-> "NDM", score |-> 68, weight |-> 15],
      [name |-> "SRA", score |-> 72, weight |-> 14],
      [name |-> "SAD", score |-> 66, weight |-> 12],
      [name |-> "ASI", score |-> 69, weight |-> 10]>>

\* bgc_data["gap_contribution"] = bgc_gap / gap, for gap > 0
gap_contribution(bgc_data, target_gwc, gap) ==
    FDiv(FSub(FMul(target_gwc, Lit(bgc_data.weight)),
              FMul(Lit(bgc_data.score), Lit(bgc_data.weight))), gap)

\* sorted(..., key=gap_contribution, reverse=True): by falling contribution,
\* equal contributions in the order they had
sorted_by_gap_contribution(caps) ==
    LET Before(j, i) ==
            \/ FLt(caps[i].gap_contribution, caps[j].gap_contribution)
            \/ (j < i /\ caps[j].gap_contribution = caps[i].gap_contribution)
        Place(i) == 1 + Cardinality({j \in 1..Len(caps) : Before(j, i)})
    IN  [p \in 1..Len(caps) |-> caps[CHOOSE i \in 1..Len(caps) : Place(i) = p]]

\* sorted(narrow.items(), key=lambda x: x[1]): by rising score, equal scores
\* in the order they had
sorted_narrow(narrow) ==
    LET Before(j, i) ==
            \/ FLt(Lit(narrow[j].score), Lit(narrow[i].score))
            \/ (j < i /\ narrow[j].score = narrow[i].score)
        Place(i) == 1 + Cardinality({j \in 1..Len(narrow) : Before(j, i)})
    IN  [p \in 1..Len(narrow) |-> narrow[CHOOSE i \in 1..Len(narrow) : Place(i) = p]]

\* the entry priorities.append adds for the capability of rank i
capability_priority(self, bgc_data, i) ==
    [capability          |-> bgc_data.name,
     current_score       |-> PyRound3(Lit(bgc_data.score)),
     gap_contribution    |-> PyRoundFloat(FMul(bgc_data.gap_contribution, FInt(100)), 10),
     investment_priority |-> i,
     limiting_factors    |->
         LET Lowest(narrow) ==
                 [k \in 1..(IF Len(narrow) < 2 THEN Len(narrow) ELSE 2) |->
                     [factor |-> narrow[k].factor, score |-> PyRound3(Lit(narrow[k].score))]]
         IN  Lowest(sorted_narrow(self.narrow_factors[bgc_data.name]))]

\* diagnose_capability_gap(country_iso3, target_gwc)
diagnose_capability_gap(self, country_iso3, target_gwc) ==
    LET Priorities(sorted_capabilities) ==
            LET Of(ranks) ==
                    [k \in 1..Len(ranks) |->
                        capability_priority(self, sorted_capabilities[ranks[k]], ranks[k])]
            IN  Of(Filter(<<1, 2, 3>>,
                          [i \in 1..3 |->
                              Has(self.narrow_factors, sorted_capabilities[i].name)]))
        Diagnose(gwc, gap) ==
            IF FLe(gap, FZero)
            THEN [current_gwc |-> PyRound3(gwc), target_gwc |-> target_gwc, gap |-> FZero,
                  status |-> "Target already achieved", priorities |-> <<>>]
            ELSE [current_gwc |-> PyRound3(gwc), target_gwc |-> target_gwc,
                  gap |-> PyRound3(gap), status |-> "Capacity building needed",
                  priorities |->
                      Priorities(sorted_by_gap_contribution(SubSeq(
                          [i \in 1..Len(broad_capabilities) |->
                              [name             |-> broad_capabilities[i].name,
                               score            |-> broad_capabilities[i].score,
                               weight           |-> broad_capabilities[i].weight,
                               gap_contribution |->
                                   gap_contribution(broad_capabilities[i], target_gwc, gap)]],
                          1, Len(broad_capabilities))))]
    IN  Diagnose(current_gwc(self, country_iso3),
                 FSub(target_gwc, current_gwc(self, country_iso3)))

(***************************************************************************)
(* Enhancement 1: Bayesian uncertainty of the ethical alignment            *)
(***************************************************************************)
\* calculate_ethical_alignment_bayesian(country_iso3, policy_scenario); the
\* square root and the values derived from it are numpy floats
calculate_ethical_alignment_bayesian(self, country_iso3, policy_scenario) ==
    LET Interval(point_estimate, posterior_std) ==
            [score       |-> point_estimate,
             ci_lower    |-> NpRound3(FMax(FZero, FSub(point_estimate,
                                                       FMul(FDec(196, 100), posterior_std)))),
             ci_upper    |-> NpRound3(FMin(FInt(1), FAdd(point_estimate,
                                                         FMul(FDec(196, 100), posterior_std)))),
             reliability |-> NpRound3(FSub(FInt(1), posterior_std)),
             std_dev     |-> NpRound3(posterior_std)]
    IN  Interval(calculate_ethical_alignment(self, country_iso3, policy_scenario),
                 FSqrt(FDiv(Lit(5),
                            FAdd(FInt(1),
                                 FMul(Lit(Get(self.data_quality, country_iso3, 50)),
                                      FInt(10))))))

(***************************************************************************)
(* Enhancement 7: maturity trajectory                                      *)
(***************************************************************************)
\* gwc_to_maturity(gwc)
gwc_to_maturity(gwc) ==
    IF FLt(gwc, Lit(40)) THEN 1
    ELSE IF FLt(gwc, Lit(60)) THEN 2
    ELSE IF FLt(gwc, Lit(75)) THEN 3
    ELSE 4

\* int(x) of a float that is not negative
FTruncInt(x) ==
    IF x.m = <<>> THEN 0
    ELSE IF x.e >= 0 THEN BToInt(BShl(x.m, x.e))
    ELSE BToInt(BShr(x.m, -x.e))

\* the loop over the months from month + 1 on, M being the maturity reached:
\* logistic growth with rho = 0.05 and M_max = 4, plus the intervention effect
RECURSIVE maturity_months(_, _, _, _, _)
maturity_months(M, month, months, target_level, intervention_effect) ==
    LET Grown(M_new) ==
            <<[month          |-> month + 1,
              maturity       |-> PyRound(M_new, 100),
              gwc_equivalent |-> PyRound3(FDiv(M_new, FInt(4)))]>>
                \o (IF FLe(FInt(target_level), M_new) THEN <<>>
                    ELSE maturity_months(M_new, month + 1, months, target_level,
                                         intervention_effect))
    IN  IF month >= months THEN <<>>
        ELSE Grown(FMin(FAdd(M, FAdd(FMul(FMul(Lit(5), M),
                                          FSub(FInt(1), FDiv(M, FInt(4)))),
                                     intervention_effect)),
                        FInt(4)))

\* calculate_maturity_trajectory(country_iso3, target_level, investment_per_month, months)
calculate_maturity_trajectory(self, country_iso3, target_level, investment_per_month, months) ==
    LET Plan(current_maturity, trajectory) ==
            LET reached == {i \in 1..Len(trajectory) :
                               FLe(FInt(target_level), trajectory[i].maturity)}
                months_to_target ==
                    IF reached = {} THEN months
                    ELSE trajectory[CHOOSE i \in reached : \A j \in reached : i <= j].month
            IN  [current_maturity          |-> current_maturity,
                 target_maturity           |-> target_level,
                 trajectory                |-> trajectory,
                 months_to_target          |-> months_to_target,
                 total_investment_required |->
                     PyRound(FMul(FInt(months_to_target), investment_per_month), 100),
                 critical_milestone_month  |->
                     FTruncInt(FMul(FInt(months_to_target), Lit(60)))]
        From(current_maturity) ==
            Plan(current_maturity,
                 maturity_months(FInt(current_maturity), 0, months, target_level,
                                 FMul(investment_per_month, Lit(1))))
    IN  From(gwc_to_maturity(
                 diagnose_capability_gap(self, country_iso3, Lit(80)).current_gwc))

(***************************************************************************)
(* trust_dynamics.py: TrustState, TrustDynamicsEngine and CoalitionManager *)
(***************************************************************************)
\* the float of a decimal literal given in hundredths, of either sign
Signed(h) == IF h < 0 THEN FNeg(Lit(-h)) ELSE Lit(h)

\* a function applied to every value of a dictionary
MapDict(d, F(_)) == IF DOMAIN d = {} THEN EmptyDict ELSE [k \in DOMAIN d |-> F(d[k])]

\* a clip that lets every value through
unclipped(x, lo, hi) == x

\* np.clip(x, lo, hi)
np_clip(x, lo, hi) == IF FLt(x, lo) THEN lo ELSE IF FLt(hi, x) THEN hi ELSE x

\* InteractionRecord(...), the values in hundredths
InteractionRecord(t, agent_i, agent_j, outcome_for_i, outcome_for_j, cooperation_level) ==
    [timestep |-> t, agent_i |-> agent_i, agent_j |-> agent_j,
     interaction_type |-> "negotiation",
     outcome_for_i |-> Signed(outcome_for_i), outcome_for_j |-> Signed(outcome_for_j),
     cooperation_level |-> Signed(cooperation_level), policy_context |-> None]

\* TrustState(agent_id=..., trust_levels=...), the other fields at the values
\* create_governance_network_trust_states passes, which are the defaults
TrustState(agent_id, trust_levels) ==
    [agent_id |-> agent_id,
     trust_levels |-> trust_levels,
     reputation_beliefs |-> EmptyDict,
     interaction_history |-> <<>>,
     debts_owed |-> EmptyDict,
     grievances |-> EmptyDict,
     coalition_members |-> {},
     baseline_trust |-> Lit(50),
     trust_decay_rate |-> Lit(2),
     forgiveness_rate |-> Lit(5),
     reciprocity_strength |-> Lit(70),
     institutional_trust |-> Lit(60)]

\* TrustDynamicsEngine()
TrustDynamicsEngine ==
    [learning_rate |-> Lit(30), reputation_weight |-> Lit(20),
     institutional_weight |-> Lit(15), global_reputation |-> EmptyDict,
     enforcement_probability |-> Lit(50)]

\* CoalitionManager(trust_threshold=0.6)
CoalitionManager ==
    [trust_threshold |-> Lit(60), value_alignment_weight |-> Lit(40),
     coalitions |-> EmptyDict]

\* TrustState.get_trust(agent_j)
get_trust(self, agent_j) == Get(self.trust_levels, agent_j, self.baseline_trust)

\* TrustDynamicsEngine.get_network_reputation(agent_id)
get_network_reputation(self, agent_id) == Get(self.global_reputation, agent_id, Lit(50))

\* new_trust of update_trust_from_interaction
new_trust(self, agent_i_trust, agent_j, interaction) ==
    LET Changed(current_trust) ==
            LET experience_update ==
                    IF FLe(FZero, interaction.outcome_for_i)
                    THEN FMul(interaction.outcome_for_i, FSub(FInt(1), current_trust))
                    ELSE FMul(FMul(interaction.outcome_for_i, FDec(15, 10)), current_trust)
                weighted_experience == FMul(interaction.cooperation_level, experience_update)
                reputation_signal ==
                    FSub(get_network_reputation(self, agent_j), current_trust)
                institutional_factor ==
                    FMul(self.enforcement_probability, agent_i_trust.institutional_trust)
                trust_change ==
                    FAdd(FAdd(FMul(self.learning_rate, weighted_experience),
                              FMul(self.reputation_weight, reputation_signal)),
                         FMul(self.institutional_weight, institutional_factor))
            IN  np_clip(FAdd(current_trust, trust_change), FZero, FInt(1))
    IN  Changed(get_trust(agent_i_trust, agent_j))

\* update_trust_from_interaction(agent_i_trust, agent_j, interaction): the
\* trust state it leaves and the value it returns
update_trust_from_interaction(self, agent_i_trust, agent_j, interaction) ==
    LET Stored(trust) ==
            [agent_i_trust |->
                 [agent_i_trust EXCEPT
                      !.trust_levels = Put(@, agent_j, trust),
                      !.interaction_history = Append(@, interaction)],
             value |-> trust]
    IN  Stored(new_trust(self, agent_i_trust, agent_j, interaction))

\* update_reciprocity_accounts(agent_i_trust, agent_j, interaction): the
\* trust state it leaves
update_reciprocity_accounts(agent_i_trust, agent_j, interaction) ==
    LET Helped(ts) ==
            IF /\ FLt(FZero, interaction.outcome_for_i)
               /\ FLt(Lit(50), interaction.cooperation_level)
            THEN [ts EXCEPT !.debts_owed =
                      Put(@, agent_j,
                          np_clip(FAdd(Get(ts.debts_owed, agent_j, FZero),
                                       FMul(interaction.outcome_for_i,
                                            interaction.cooperation_level)),
                                  FZero, FInt(2)))]
            ELSE ts
        Harmed(ts) ==
            IF FLt(interaction.outcome_for_i, FZero)
            THEN [ts EXCEPT !.grievances =
                      Put(@, agent_j,
                          np_clip(FAdd(Get(ts.grievances, agent_j, FZero),
                                       FAbs(interaction.outcome_for_i)),
                                  FZero, FInt(2)))]
            ELSE ts
    IN  Harmed(Helped(agent_i_trust))

\* a decay that carries the trust past the baseline
trust_decay_past_baseline(agent_trust, current_trust) ==
    FMul(FAdd(FInt(1), agent_trust.trust_decay_rate),
         FSub(current_trust, agent_trust.baseline_trust))

\* decay = agent_trust.trust_decay_rate * (current_trust - agent_trust.baseline_trust)
trust_decay(agent_trust, current_trust) ==
    FMul(agent_trust.trust_decay_rate, FSub(current_trust, agent_trust.baseline_trust))

\* decay_trust_and_reciprocity(agent_trust): the trust state it leaves
decay_trust_and_reciprocity(agent_trust) ==
    LET Decayed(current_trust) ==
            np_clip(FSub(current_trust, trust_decay(agent_trust, current_trust)),
                    FZero, FInt(1))
        Forgiven(account) == FMul(account, FSub(FInt(1), agent_trust.forgiveness_rate))
    IN  [agent_trust EXCEPT !.trust_levels = MapDict(@, Decayed),
                            !.debts_owed = MapDict(@, Forgiven),
                            !.grievances = MapDict(@, Forgiven)]

\* the sum of a list of floats, from left to right
RECURSIVE FSum(_)
FSum(list) == IF list = <<>> THEN FZero ELSE FAdd(FSum(SubSeq(list, 1, Len(list) - 1)),
                                                  list[Len(list)])

\* update_network_reputation(agent_id, all_interactions): the engine it leaves
update_network_reputation(self, agent_id, all_interactions) ==
    LET relevant == Filter(all_interactions,
                           [i \in 1..Len(all_interactions) |->
                               \/ all_interactions[i].agent_i = agent_id
                               \/ all_interactions[i].agent_j = agent_id])
        Score(interaction) ==
            IF interaction.agent_i = agent_id THEN interaction.cooperation_level
            ELSE IF FLt(FZero, interaction.outcome_for_j) THEN Lit(70)
            ELSE IF FLt(interaction.outcome_for_j, FZero) THEN Lit(30)
            ELSE Lit(50)
        Smoothed(reputation) ==
            FAdd(FMul(Lit(70), Get(self.global_reputation, agent_id, Lit(50))),
                 FMul(Lit(30), reputation))
    IN  IF relevant = <<>>
        THEN [self EXCEPT !.global_reputation = Put(@, agent_id, Lit(50))]
        ELSE [self EXCEPT !.global_reputation =
                  Put(@, agent_id,
                      Smoothed(FDiv(FSum([i \in 1..Len(relevant) |-> Score(relevant[i])]),
                                    FInt(Len(relevant)))))]

\* CoalitionManager.can_form_coalition(agent_i_trust, agent_j, moral_distance)
can_form_coalition(self, agent_i_trust, agent_j, moral_distance) ==
    IF FLt(get_trust(agent_i_trust, agent_j), self.trust_threshold) THEN FALSE
    ELSE IF moral_distance # None
    THEN FLt(Lit(65),
             FAdd(FMul(FSub(FInt(1), self.value_alignment_weight),
                       get_trust(agent_i_trust, agent_j)),
                  FMul(self.value_alignment_weight,
                       FSub(FInt(1), FDiv(moral_distance, FDec(15, 10))))))
    ELSE TRUE

\* CoalitionManager.form_coalition(coalition_id, members): the manager it leaves
form_coalition(self, coalition_id, members) ==
    [self EXCEPT !.coalitions = Put(@, coalition_id, members)]

\* CoalitionManager.update_coalition_trust(coalition_id, member_trust_states):
\* the trust states it leaves; coalition_trust_bonus = 0.1
update_coalition_trust(self, coalition_id, member_trust_states) ==
    LET Boosted(trust_state, agent_i, members) ==
            [trust_state EXCEPT
                 !.trust_levels =
                     [agent_j \in (IF DOMAIN @ = {} THEN {} ELSE DOMAIN @)
                                      \cup (members \ {agent_i}) |->
                         IF agent_j \in members \ {agent_i}
                         THEN np_clip(FAdd(get_trust(trust_state, agent_j), Lit(10)),
                                      FZero, FInt(1))
                         ELSE @[agent_j]],
                 !.coalition_members = @ \cup (members \ {agent_i})]
    IN  IF ~Has(self.coalitions, coalition_id) THEN member_trust_states
        ELSE [agent_i \in DOMAIN member_trust_states |->
                 IF agent_i \in self.coalitions[coalition_id]
                 THEN Boosted(member_trust_states[agent_i], agent_i,
                              self.coalitions[coalition_id])
                 ELSE member_trust_states[agent_i]]

(***************************************************************************)
(* The Kalman filter driven through the client's two methods, with         *)
(* measurements and intervention effects from the ends and the middle of   *)
(* the two sliders' ranges                                                 *)
(***************************************************************************)
\* updates made in all, over all countries
MaxKalmanUpdates == 3

KalmanCountries == {"USA", "CHN"}

\* new_measurement, in hundredths: the slider runs from 0.0 to 1.0
KalmanMeasurements == {0, 50, 100}

\* intervention_effect, in hundredths: the slider runs from 0.0 to 0.5
KalmanInterventions == {0, 50}

\* the updates made so far: every update appends one entry to a history
\* that initialize_kalman_filter starts with one entry
RECURSIVE kalman_updates_made(_, _)
kalman_updates_made(states, isos) ==
    IF isos = {} THEN 0
    ELSE LET iso == CHOOSE i \in isos : TRUE
         IN  (IF Has(states, iso) THEN Len(states[iso].history) - 1 ELSE 0)
             + kalman_updates_made(states, isos \ {iso})

KalmanInit ==
    /\ client = [built |-> TRUE, obj |-> BachGovernanceAPI(FallbackData)]
    /\ api_call = [method |-> "none"]
    /\ api_ret = [raised |-> "pending", value |-> <<>>]
    /\ now = 0
    /\ cache = EmptyDict
    /\ last_update = EmptyDict
    /\ call = IdleCall
    /\ outcome = NoOutcome
    /\ fetched = NoFetch
    /\ ConvIdle
    /\ SessIdle
    /\ TrustIdle

\* bach_api.initialize_kalman_filter(country_iso3)
KalmanInitialize(country_iso3) ==
    /\ client' = [client EXCEPT !.obj.kalman_states =
                      initialize_kalman_filter(client.obj, country_iso3)]
    /\ api_call' = [method |-> "initialize_kalman_filter", country_iso3 |-> country_iso3]
    /\ api_ret' = [raised |-> "none", value |-> None]
    /\ UNCHANGED <<now, cache, last_update, call, outcome, fetched, convVars, sessVars, trustVars>>

\* bach_api.kalman_update(country_iso3, new_measurement, intervention_effect)
KalmanUpdate(country_iso3, new_measurement, intervention_effect) ==
    /\ kalman_updates_made(client.obj.kalman_states, KalmanCountries) < MaxKalmanUpdates
    /\ LET Done(ret) ==
               /\ client' = [client EXCEPT !.obj.kalman_states = ret.kalman_states]
               /\ api_ret' = [raised |-> "none", value |-> ret.value]
       IN  Done(kalman_update(client.obj, country_iso3, Lit(new_measurement),
                              Lit(intervention_effect)))
    /\ api_call' = [method |-> "kalman_update", country_iso3 |-> country_iso3,
                    new_measurement |-> new_measurement,
                    intervention_effect |-> intervention_effect]
    /\ UNCHANGED <<now, cache, last_update, call, outcome, fetched, convVars, sessVars, trustVars>>

KalmanNext ==
    \/ \E iso \in KalmanCountries : KalmanInitialize(iso)
    \/ \E iso \in KalmanCountries, z \in KalmanMeasurements, u \in KalmanInterventions :
           KalmanUpdate(iso, z, u)

SpecKalman == KalmanInit /\ [][KalmanNext]_vars

\* C7: from the state initialize_kalman_filter writes, after any sequence of
\* kalman_update calls with a measurement in [0, 1] and an intervention
\* effect in [0, 0.5], the stored variance P (now and at every step of the
\* history) and the 'uncertainty' the call returns are not negative
C7_VarianceNeverNegative ==
    /\ \A iso \in KalmanCountries :
           Has(client.obj.kalman_states, iso) =>
               /\ FLe(FZero, client.obj.kalman_states[iso].P)
               /\ \A i \in 1..Len(client.obj.kalman_states[iso].history) :
                      FLe(FZero, client.obj.kalman_states[iso].history[i].P)
    /\ api_call.method = "kalman_update" => FLe(FZero, api_ret.value.uncertainty)

\* three updates of one country's filter, the last one lowering the variance
\* below that of initialize_kalman_filter
C7_Witness ==
    /\ api_call.method = "kalman_update"
    /\ Has(client.obj.kalman_states, api_call.country_iso3)
    /\ Len(client.obj.kalman_states[api_call.country_iso3].history) = MaxKalmanUpdates + 1
    /\ FLt(FZero, client.obj.kalman_states[api_call.country_iso3].P)
    /\ FLt(client.obj.kalman_states[api_call.country_iso3].P, Lit(10))
    /\ FLt(FZero, api_ret.value.uncertainty)

(***************************************************************************)
(* The pages.  Streamlit runs a page's script from the top once for every  *)
(* interaction of a session; st.stop, st.rerun and st.switch_page end the  *)
(* run, the last two with another run to follow.  st.session_state is the  *)
(* session's own; the client of get_bach_api_client is the process's.      *)
(***************************************************************************)
LoginPages ==
    {"cognitive_demo.py", "institutional_behavior.py",
     "pages/cognitive_decision_science.py", "pages/visual_3d.py"}

SimulationPages == {"pages/simulation.py", "simulation.py"}

PageNames == {"app.py"} \cup SimulationPages \cup LoginPages

\* the password every login compares with
Password == "charlie2025"

\* what is typed into the password field: the password, or something else
TypedPasswords == {Password, "bach2025"}

\* what is typed into the username field of app.py
TypedUsernames == {"analyst"}

\* Actor A of the sidebar stays at its first option
SelectedActor == "USA"

\* the two sliders of the Kalman tab stay at their defaults, 0.7 and 0.1
SliderMeasurement == 70

SliderIntervention == 10

\* clicks on Start/Next Round a session makes at most
MaxRound == 1

\* clicks on Update Kalman Filter made at most, in all sessions together
MaxTabUpdates == 1

\* an interaction: what the user did to set off a script run
Interaction(kind, password, username) ==
    [kind |-> kind, password |-> password, username |-> username]

\* a page opened, or a run that st.rerun or st.switch_page asked for
Plain(kind) == Interaction(kind, "", "")

\* no run follows
NoNext == [page |-> "none", kind |-> "none"]

\* a login that takes whatever is typed
password_matches_any(password) == TRUE

\* if password == "charlie2025":
password_matches(password) == password = Password

\* a gate that lets every session through
passes_gate_unconditionally(ss) == TRUE

\* the test of every gate: the session's 'authenticated' is True
passes_gate(ss) == Get(ss, "authenticated", FALSE) = TRUE

\* if 'authenticated' not in st.session_state: st.session_state.authenticated = False
with_authenticated(ss) == IF Has(ss, "authenticated") THEN ss ELSE Put(ss, "authenticated", FALSE)

\* what a script run leaves: the session state, whether it went past the
\* gate, the kinds of element it rendered, the run that follows, the
\* client's kalman_states, and the country whose filter the Kalman tab read
ScriptRun(ss, past_gate, rendered, next, kalman_states, kalman_tab) ==
    [session_state |-> ss, past_gate |-> past_gate, rendered |-> rendered, next |-> next,
     kalman_states |-> kalman_states, kalman_tab |-> kalman_tab]

\* the Kalman tab was not reached
NoTab == [iso |-> "none", initialized |-> FALSE]

\* app.py
app_script(ss, event, kalman_states) ==
    LET Gate(ss1) ==
            IF ~passes_gate(ss1)
            THEN IF event.kind = "login"
                 THEN IF password_matches(event.password)
                      THEN ScriptRun(Put(Put(ss1, "authenticated", TRUE), "username", event.username),
                                     FALSE, {"style", "title", "login_form", "success"},
                                     [page |-> "app.py", kind |-> "rerun_after_login"],
                                     kalman_states, NoTab)
                      ELSE ScriptRun(ss1, FALSE, {"style", "title", "login_form", "error"},
                                     NoNext, kalman_states, NoTab)
                 ELSE ScriptRun(ss1, FALSE, {"style", "title", "login_form"}, NoNext,
                                kalman_states, NoTab)
            ELSE ScriptRun(ss1, TRUE, {"style", "title"},
                           [page |-> "pages/simulation.py", kind |-> "switch_page"],
                           kalman_states, NoTab)
    IN  Gate(with_authenticated(ss))

\* cognitive_demo.py, institutional_behavior.py,
\* pages/cognitive_decision_science.py, pages/visual_3d.py
login_page_script(page, ss, event, kalman_states) ==
    LET Gate(ss1) ==
            IF ~passes_gate(ss1)
            THEN IF event.kind = "login"
                 THEN IF password_matches(event.password)
                      THEN ScriptRun(Put(ss1, "authenticated", TRUE), FALSE, {"login_prompt"},
                                     [page |-> page, kind |-> "rerun_after_login"],
                                     kalman_states, NoTab)
                      ELSE ScriptRun(ss1, FALSE, {"login_prompt", "error"}, NoNext,
                                     kalman_states, NoTab)
                 ELSE ScriptRun(ss1, FALSE, {"login_prompt"}, NoNext, kalman_states, NoTab)
            ELSE ScriptRun(ss1, TRUE, {"content"}, NoNext, kalman_states, NoTab)
    IN  Gate(with_authenticated(ss))

\* Reset keeping no key at all
reset_keeps_nothing == {}

\* the keys Reset does not delete
reset_keeps == {"authenticated", "username"}

\* for key in list(st.session_state.keys()): if key not in [...]: del st.session_state[key]
after_reset(ss) ==
    IF DOMAIN ss \cap reset_keeps = {} THEN EmptyDict
    ELSE [k \in DOMAIN ss \cap reset_keeps |-> ss[k]]

\* the CSS that pages/simulation.py writes before its gate
before_gate(page) == IF page = "pages/simulation.py" THEN {"style"} ELSE {}

\* the Kalman tab, with the kalman_states the clicked button has left
kalman_tab(ss, page, iso_a, kalman_states) ==
    ScriptRun(ss, TRUE, before_gate(page) \cup {"content"}, NoNext, kalman_states,
              [iso |-> iso_a, initialized |-> Has(kalman_states, iso_a)])

\* pages/simulation.py and simulation.py, with the client get_bach_api_client returned
simulation_script(page, ss, event, self) ==
    LET iso_a == Get(country_to_iso, SelectedActor, "USA")
        Tabs(ss3) ==
            IF event.kind = "kalman_initialize"
            THEN kalman_tab(ss3, page, iso_a, initialize_kalman_filter(self, iso_a))
            ELSE IF event.kind = "kalman_update" /\ Has(self.kalman_states, iso_a)
            THEN kalman_tab(ss3, page, iso_a,
                            kalman_update(self, iso_a, Lit(SliderMeasurement),
                                          Lit(SliderIntervention)).kalman_states)
            ELSE kalman_tab(ss3, page, iso_a, self.kalman_states)
        Sidebar(ss2) ==
            IF event.kind = "reset"
            THEN ScriptRun(after_reset(ss2), TRUE, before_gate(page) \cup {"content"},
                           [page |-> page, kind |-> "rerun_after_reset"],
                           self.kalman_states, NoTab)
            ELSE Tabs(IF event.kind = "next_round"
                      THEN [ss2 EXCEPT !["round"] = ss2["round"] + 1]
                      ELSE ss2)
        Policies(ss1) ==
            Sidebar(IF Has(ss1, "policies") THEN ss1 ELSE Put(ss1, "policies", policies))
    IN  Policies(IF Has(ss, "round") THEN ss ELSE Put(ss, "round", 1))

\* the gate of the two simulation pages: st.warning, st.switch_page("app.py")
simulation_gate(page, ss, kalman_states) ==
    ScriptRun(ss, FALSE, before_gate(page) \cup {"warning"},
              [page |-> "app.py", kind |-> "switch_page"], kalman_states, NoTab)

\* the script stopped by the exception BachGovernanceAPI() raised
simulation_exception(page, ss, kalman_states) ==
    ScriptRun(ss, TRUE, before_gate(page) \cup {"exception"}, NoNext, kalman_states, NoTab)

\* the ways BachGovernanceAPI() can end when get_bach_api_client calls it:
\* with a client (here the one built when no endpoint answers), or with the
\* exception of fetch_oecd_data
Constructions ==
    {[raised |-> "none", phase2_data |-> FallbackData],
     [raised |-> "AttributeError", phase2_data |-> EmptyDict]}

\* DataIngress.cache after get_all_phase2_data has fetched the three sources
cache_of(phase2_data) ==
    [k \in {"oecd_data", "privacy_data", "parlamint_data"} |->
        CASE k = "oecd_data"      -> phase2_data.oecd
          [] k = "privacy_data"   -> phase2_data.privacy_international
          [] k = "parlamint_data" -> phase2_data.parlamint]

\* the clicks on Update Kalman Filter so far: one history entry each
tab_updates_made ==
    IF client.built THEN kalman_updates_made(client.obj.kalman_states, {"USA"}) ELSE 0

\* the interactions the screen of session s offers on page
Interactions(s, page) ==
    {Plain("open")}
    \cup (IF shown[s].page = page /\ shown[s].rendered \cap {"login_form", "login_prompt"} # {}
          THEN {Interaction("login", pw, u) : pw \in TypedPasswords, u \in TypedUsernames}
          ELSE {})
    \cup (IF shown[s].page = page /\ page \in SimulationPages /\ "content" \in shown[s].rendered
          THEN {Plain("reset"), Plain("kalman_initialize")}
               \cup (IF session_state[s]["round"] < MaxRound + 1
                     THEN {Plain("next_round")} ELSE {})
               \cup (IF shown[s].kalman_tab.initialized /\ tab_updates_made < MaxTabUpdates
                     THEN {Plain("kalman_update")} ELSE {})
          ELSE {})

\* the run is over: what session s has on its screen, and who has used
\* which country's filter
Finish(s, page, event, run) ==
    /\ session_state' = [session_state EXCEPT ![s] = run.session_state]
    /\ shown' = [shown EXCEPT ![s] =
                    [page |-> page, event |-> event.kind, password |-> event.password,
                     past_gate |-> run.past_gate,
                     rendered |-> run.rendered, kalman_tab |-> run.kalman_tab,
                     next |-> run.next]]
    /\ kalman_users' =
           IF run.kalman_tab.initialized
           THEN Put(kalman_users, run.kalman_tab.iso,
                    Get(kalman_users, run.kalman_tab.iso, {}) \cup {s})
           ELSE kalman_users

\* what @st.cache_resource makes of get_bach_api_client(): the client built
\* before, or one of the ways BachGovernanceAPI() can end now, with the cache
\* entries its fetches have written
get_bach_api_client ==
    IF client.built
    THEN {[raised |-> "none", obj |-> client.obj, cache |-> cache,
           last_update |-> last_update]}
    ELSE {[raised |-> made.raised,
           obj |-> IF made.raised = "none" THEN BachGovernanceAPI(made.phase2_data)
                   ELSE EmptyDict,
           cache |-> IF made.raised = "none" THEN cache_of(made.phase2_data) ELSE cache,
           last_update |-> IF made.raised = "none"
                           THEN [k \in {"oecd_data", "privacy_data", "parlamint_data"} |-> now]
                           ELSE last_update] :
              made \in Constructions}

\* a run of a simulation page with the client made: the client keeps the
\* kalman_states the run has left
RunSimulation(s, page, event, made, run) ==
    /\ Finish(s, page, event, run)
    /\ client' = [built |-> TRUE,
                  obj |-> [made.obj EXCEPT !.kalman_states = run.kalman_states]]
    /\ cache' = made.cache
    /\ last_update' = made.last_update

\* one run of the script of page in session s
RunScript(s, page, event) ==
    /\ IF page = "app.py"
       THEN /\ Finish(s, page, event, app_script(session_state[s], event, EmptyDict))
            /\ UNCHANGED <<client, cache, last_update>>
       ELSE IF page \in LoginPages
       THEN /\ Finish(s, page, event, login_page_script(page, session_state[s], event, EmptyDict))
            /\ UNCHANGED <<client, cache, last_update>>
       ELSE IF ~passes_gate(session_state[s])
       THEN /\ Finish(s, page, event, simulation_gate(page, session_state[s], EmptyDict))
            /\ UNCHANGED <<client, cache, last_update>>
       ELSE \E made \in get_bach_api_client :
                IF made.raised # "none"
                THEN /\ Finish(s, page, event,
                               simulation_exception(page, session_state[s], EmptyDict))
                     /\ UNCHANGED <<client, cache, last_update>>
                ELSE RunSimulation(s, page, event, made,
                                   simulation_script(page, session_state[s], event, made.obj))
    /\ UNCHANGED <<now, call, outcome, fetched, convVars, apiVars, trustVars>>

\* the pages a session visits: the first session all of them, the second
\* the login page and the simulation page it leads to
PagesOf(s) == IF s = "s1" THEN PageNames ELSE {"app.py", "pages/simulation.py"}

\* the user of session s opens a page or uses a widget of the page on screen
Interact(s) ==
    /\ shown[s].next = NoNext
    /\ \E page \in PagesOf(s) : \E event \in Interactions(s, page) :
           RunScript(s, page, event)

\* the run st.rerun or st.switch_page asked for
Continue(s) ==
    /\ shown[s].next # NoNext
    /\ RunScript(s, shown[s].next.page, Plain(shown[s].next.kind))

Init ==
    /\ IngressInit
    /\ ConvIdle
    /\ SessIdle
    /\ TrustIdle
    /\ ApiIdle

Next ==
    \/ \E s \in Sessions : Interact(s)
    \/ \E s \in Sessions : Continue(s)

Spec == Init /\ [][Next]_vars

\* st.session_state of session s holds 'authenticated' with the value True
authenticated(s) ==
    Has(session_state[s], "authenticated") /\ session_state[s]["authenticated"] = TRUE

\* C8: in a session whose 'authenticated' is absent or False no page runs
\* past its gate: a run that went past the gate, and any run that rendered
\* page content, leaves 'authenticated' True
C8_NoPagePastItsGateUnauthenticated ==
    \A s \in Sessions :
        (shown[s].past_gate \/ shown[s].rendered \cap {"content", "exception"} # {})
            => authenticated(s)

\* a session stopped at the gate of a page after a wrong password, having
\* been stopped at no other gate before, while the other session, logged
\* in, is shown the simulation page
C8_Witness ==
    /\ shown["s1"].page = "pages/visual_3d.py"
    /\ shown["s1"].event = "login"
    /\ ~shown["s1"].past_gate
    /\ ~authenticated("s1")
    /\ "error" \in shown["s1"].rendered
    /\ shown["s2"].page = "pages/simulation.py"
    /\ shown["s2"].past_gate
    /\ "content" \in shown["s2"].rendered

\* C9: once 'authenticated' is True in a session, no script run (page
\* opening, login, Next Round, Reset, Kalman button, rerun, page switch)
\* sets it to False or removes it
C9_AuthenticationNeverExpires ==
    [][\A s \in Sessions : authenticated(s) => authenticated(s)']_vars

\* an authenticated session has just clicked Reset: its
\* round is gone, its login is not
C9_Witness ==
    /\ shown["s1"].event = "reset"
    /\ ~Has(session_state["s1"], "round")
    /\ Has(session_state["s1"], "username")
    /\ authenticated("s1")

\* C5: after the Reset of the simulation page no Kalman state created
\* before it remains: the run of the Reset handler leaves kalman_states empty
C5_ResetClearsKalmanStates ==
    [][\A s \in Sessions :
           (shown'[s] # shown[s] /\ shown'[s].event = "reset")
               => client'.obj.kalman_states = EmptyDict]_vars

\* C6: a country's Kalman state is read and written by one session at most
C6_KalmanStateOfOneSessionOnly ==
    \A iso \in DOMAIN kalman_users : Cardinality(kalman_users[iso]) <= 1

(***************************************************************************)
(* One call of DataIngress.fetch_with_retry, with every sequence of        *)
(* answers to its requests                                                 *)
\* C21: on every login surface 'authenticated' goes from absent or False to
\* True only in a run of a login page in which the password submitted is
\* the shared one; a run in which another password is submitted leaves
\* 'authenticated' False, shows the error and ends before the gate with no
\* run to follow
C21_AuthenticatedOnlyByThePassword ==
    [][\A s \in Sessions :
           /\ (~authenticated(s) /\ authenticated(s)')
                  => /\ shown'[s].page \in {"app.py"} \cup LoginPages
                     /\ shown'[s].event = "login"
                     /\ shown'[s].password = Password
           /\ (shown'[s].event = "login" /\ shown'[s].password # Password)
                  => /\ ~authenticated(s)'
                     /\ "error" \in shown'[s].rendered
                     /\ ~shown'[s].past_gate
                     /\ shown'[s].next = NoNext]_vars

\* one session has just logged in on the cognitive decision science page
\* with the password, the other has just been refused by the form of app.py
C21_Witness ==
    /\ shown["s1"].page = "pages/cognitive_decision_science.py"
    /\ shown["s1"].event = "login"
    /\ shown["s1"].password = Password
    /\ authenticated("s1")
    /\ shown["s2"].page = "app.py"
    /\ shown["s2"].event = "login"
    /\ shown["s2"].password # Password
    /\ "error" \in shown["s2"].rendered
    /\ ~authenticated("s2")

(***************************************************************************)
\* the call has sent no request yet
RetryInit ==
    /\ api_call = [method |-> "fetch_with_retry", attempt |-> 0, responses |-> <<>>,
                   slept |-> <<>>]
    /\ api_ret = [raised |-> "pending", value |-> <<>>]
    /\ IngressInit
    /\ ConvIdle
    /\ SessIdle
    /\ TrustIdle

\* requests.get of the current pass of the loop ends with the given outcome
RetryRespond(response) ==
    /\ api_call.method = "fetch_with_retry"
    /\ api_ret.raised = "pending"
    /\ LET pass == fetch_attempt(api_call.attempt, response)
       IN  /\ api_call' = [api_call EXCEPT !.attempt = api_call.attempt + 1,
                                           !.responses = Append(api_call.responses, response),
                                           !.slept = api_call.slept \o pass.slept]
           /\ api_ret' = IF pass.returned THEN [raised |-> "none", value |-> pass.value]
                         ELSE api_ret
    /\ UNCHANGED <<ingressVars, convVars, sessVars, trustVars>>

RetryNext == \E response \in HttpOutcomes : RetryRespond(response)

SpecRetry == RetryInit /\ [][RetryNext]_vars

\* the answer has status 200
IsOk(response) == response.kind = "response" /\ response.status_code = 200

\* the answer has status 429
IsRateLimited(response) == response.kind = "response" /\ response.status_code = 429

\* C11 as stated: one call sends at most max_retries requests, returns the
\* body of the first 200 response without sending another request, and
\* returns None after the max_retries-th failed attempt
C11_FirstOkResponseIsReturned ==
    /\ Len(api_call.responses) <= 3
    /\ \A i \in 1..Len(api_call.responses) :
           IsOk(api_call.responses[i])
               => /\ i = Len(api_call.responses)
                  /\ api_ret = [raised |-> "none", value |-> api_call.responses[i].body]
    /\ (Len(api_call.responses) = 3 /\ ~IsOk(api_call.responses[3]))
           => api_ret = [raised |-> "none", value |-> None]

\* C11, amended: one call sends at most max_retries requests, returns the
\* parsed body of the first 200 response whose body is JSON without sending
\* another request, and returns None after the max_retries-th failed
\* attempt; a 200 response whose body is not JSON is a failed attempt
C11_FirstParsedOkResponseIsReturned ==
    /\ Len(api_call.responses) <= 3
    /\ \A i \in 1..Len(api_call.responses) :
           (IsOk(api_call.responses[i]) /\ api_call.responses[i].body # NotJson)
               => /\ i = Len(api_call.responses)
                  /\ api_ret = [raised |-> "none", value |-> api_call.responses[i].body]
    /\ (Len(api_call.responses) = 3
            /\ ~(IsOk(api_call.responses[3]) /\ api_call.responses[3].body # NotJson))
           => api_ret = [raised |-> "none", value |-> None]
    /\ (api_ret.raised = "pending") =>
           \A i \in 1..Len(api_call.responses) :
               ~(IsOk(api_call.responses[i]) /\ api_call.responses[i].body # NotJson)

\* a call that returned the body of its third answer after a 200 answer that
\* was not JSON and a timeout
C11_Witness ==
    /\ Len(api_call.responses) = 3
    /\ api_call.responses[1] = HttpResponse(200, NotJson)
    /\ api_call.responses[2] = HttpTimeout
    /\ IsOk(api_call.responses[3])
    /\ api_ret.raised = "none"
    /\ api_ret.value = api_call.responses[3].body
    /\ api_ret.value # None

\* the waits of a call are those of its failed attempts in order; only the
\* last attempt can go without one
WaitAfter(k) == api_call.slept[k + 1]

\* C12 as stated: the wait that follows failed attempt k is 2^k seconds, or
\* 5 * 2^k seconds after a 429, so the wait doubles from one attempt to the
\* next
C12_WaitsDouble ==
    /\ \A k \in 0..(Len(api_call.slept) - 1) :
           WaitAfter(k) = IF IsRateLimited(api_call.responses[k + 1])
                          THEN 5 * Pow2(k) ELSE Pow2(k)
    /\ \A k \in 1..(Len(api_call.slept) - 1) : WaitAfter(k) = 2 * WaitAfter(k - 1)

\* C12, amended: a failed attempt k that is not the last is followed by a
\* wait of 2^k seconds, or of 5 * 2^k seconds after a 429; the last attempt
\* is followed by 5 * 2^k seconds after a 429 and by no wait otherwise; the
\* wait doubles from one attempt to the next when both got a 429 or neither did
C12_WaitsByAttemptAndStatus ==
    /\ \A k \in 0..(Len(api_call.responses) - 1) :
           LET response == api_call.responses[k + 1]
           IN  IF IsOk(response) /\ response.body # NotJson THEN Len(api_call.slept) = k
               ELSE IF IsRateLimited(response)
               THEN Len(api_call.slept) > k /\ WaitAfter(k) = 5 * Pow2(k)
               ELSE IF k < 2
               THEN Len(api_call.slept) > k /\ WaitAfter(k) = Pow2(k)
               ELSE Len(api_call.slept) = k
    /\ \A k \in 1..(Len(api_call.slept) - 1) :
           (IsRateLimited(api_call.responses[k]) <=> IsRateLimited(api_call.responses[k + 1]))
               => WaitAfter(k) = 2 * WaitAfter(k - 1)

\* a call that was rate limited, then timed out, then was rate limited again:
\* waits of 5, 2 and 20 seconds, the last one before returning None
C12_Witness ==
    /\ Len(api_call.responses) = 3
    /\ IsRateLimited(api_call.responses[1])
    /\ api_call.responses[2] = HttpTimeout
    /\ IsRateLimited(api_call.responses[3])
    /\ api_call.slept = <<5, 2, 20>>
    /\ api_ret = [raised |-> "none", value |-> None]

\* C24: fetch_with_retry does not wait after its final attempt: when attempt
\* number max_retries has failed, whatever the kind of failure, the call
\* returns None having slept only after the attempts before it
C24_NoWaitAfterFinalAttempt ==
    (api_ret.raised = "none" /\ api_ret.value = None /\ api_call.attempt = max_retries)
        => Len(api_call.slept) = max_retries - 1


(***************************************************************************)
(* Tab 6: one call of match_historical_scenarios for a pair of actors and  *)
(* a position of the three sliders                                         *)
(***************************************************************************)
\* [selected_country_a, selected_country_b]: two countries one of which the
\* scenarios name, two they do not name, one actor chosen twice, two blocs
HistoricalActorLists ==
    {<<"USA", "China">>, <<"EU", "Japan">>, <<"USA", "USA">>, <<"MENA", "BRICS">>}

\* positions of a slider that runs from 0.0 to 1.0 in steps of 0.05, in hundredths
SliderStops == {0, 35, 60, 80, 100}

HistoricalInit ==
    /\ api_call \in [method : {"match_historical_scenarios"},
                     current_actors : HistoricalActorLists,
                     power_asymmetry : SliderStops,
                     issue_salience : SliderStops,
                     time_pressure : SliderStops]
    /\ api_ret = [raised |-> "pending", value |-> <<>>]
    /\ IngressInit
    /\ ConvIdle
    /\ SessIdle
    /\ TrustIdle

MatchHistorical ==
    /\ api_call.method = "match_historical_scenarios"
    /\ api_ret.raised = "pending"
    /\ api_ret' = [raised |-> "none",
                   value |-> match_historical_scenarios(
                                 BachGovernanceAPI(FallbackData), api_call.current_actors,
                                 Lit(api_call.power_asymmetry), Lit(api_call.issue_salience),
                                 Lit(api_call.time_pressure))]
    /\ UNCHANGED <<api_call, ingressVars, convVars, sessVars, trustVars>>

HistoricalNext == MatchHistorical

SpecHistorical == HistoricalInit /\ [][HistoricalNext]_vars

\* C13: match_historical_scenarios returns one entry for each of the five
\* historical scenarios, each entry's relevance being greater than or equal
\* to that of the entry after it
C13_FiveMatchesByFallingRelevance ==
    api_ret.raised = "none" =>
        /\ Len(api_ret.value) = 5
        /\ {api_ret.value[i].scenario : i \in 1..Len(api_ret.value)}
               = {historical_scenarios[i].scenario : i \in 1..Len(historical_scenarios)}
        /\ \A i \in 1..(Len(api_ret.value) - 1) :
               FLe(api_ret.value[i + 1].relevance, api_ret.value[i].relevance)

\* a call whose result is not in the order of the table: its first entry is
\* not the table's first scenario, and the relevance falls from the first
\* entry to the second and from the fourth to the last
C13_Witness ==
    /\ api_ret.raised = "none"
    /\ api_ret.value[1].scenario # historical_scenarios[1].scenario
    /\ FLt(api_ret.value[2].relevance, api_ret.value[1].relevance)
    /\ FLt(api_ret.value[5].relevance, api_ret.value[4].relevance)

\* the country codes of a list of sidebar actors: country_to_iso.get(actor, actor)
iso_codes(actors) == [i \in 1..Len(actors) |-> Get(country_to_iso, actors[i], actors[i])]

\* C26: the historical matcher counts a sidebar actor as shared with a
\* scenario that lists the actor's country code: the matches for the
\* selected actors are those for their country codes, and every overlap
\* ratio is in [0, 1]
C26_ActorsMatchedByCountryCode ==
    api_ret.raised = "none" =>
        /\ api_ret.value =
               match_historical_scenarios(
                   BachGovernanceAPI(FallbackData), iso_codes(api_call.current_actors),
                   Lit(api_call.power_asymmetry), Lit(api_call.issue_salience),
                   Lit(api_call.time_pressure))
        /\ \A i \in 1..Len(historical_scenarios) :
               /\ FLe(FZero, actor_overlap(api_call.current_actors,
                                           historical_scenarios[i].actors))
               /\ FLe(actor_overlap(api_call.current_actors, historical_scenarios[i].actors),
                      FInt(1))


(***************************************************************************)
(* Tab 4: one call of compute_pareto_scenarios for a pair of country codes *)
(* and a list of policy options                                            *)
(***************************************************************************)
\* the codes of the sidebar's countries (iso_a, iso_b of the pages) and one
\* code no table knows
ParetoCountries == {Get(country_to_iso, a, a) : a \in InputActors}

\* the list the pages pass, and lists of one option, of the same option
\* twice, with an option the API does not know, and of none
ParetoPolicyOptions ==
    {<<"AI Ethics", "AI Safety", "Data Privacy", "Export Controls", "R&D Investment">>,
     <<"AI Safety">>,
     <<"Data Privacy", "AI Ethics", "Data Privacy">>,
     <<"R&D Investment", "Trade", "Export Controls">>,
     <<>>}

ParetoInit ==
    /\ api_call \in [method : {"compute_pareto_scenarios"},
                     country_a : ParetoCountries,
                     country_b : ParetoCountries,
                     policy_options : ParetoPolicyOptions]
    /\ api_ret = [raised |-> "pending", value |-> <<>>]
    /\ IngressInit
    /\ ConvIdle
    /\ SessIdle
    /\ TrustIdle

ComputePareto ==
    /\ api_call.method = "compute_pareto_scenarios"
    /\ api_ret.raised = "pending"
    /\ api_ret' = compute_pareto_scenarios(BachGovernanceAPI(FallbackData),
                                           api_call.country_a, api_call.country_b,
                                           api_call.policy_options)
    /\ UNCHANGED <<api_call, ingressVars, convVars, sessVars, trustVars>>

ParetoNext == ComputePareto

SpecPareto == ParetoInit /\ [][ParetoNext]_vars

\* s2 is at least as good as s1 on all four metrics and strictly better on
\* at least one, written out on the returned entries
C14_Better(s2, s1) ==
    /\ FLe(s1.ethical_alignment, s2.ethical_alignment)
    /\ FLe(s1.privacy_protection, s2.privacy_protection)
    /\ FLe(s1.speed_to_agreement, s2.speed_to_agreement)
    /\ FLe(s1.innovation_potential, s2.innovation_potential)
    /\ \/ FLt(s1.ethical_alignment, s2.ethical_alignment)
       \/ FLt(s1.privacy_protection, s2.privacy_protection)
       \/ FLt(s1.speed_to_agreement, s2.speed_to_agreement)
       \/ FLt(s1.innovation_potential, s2.innovation_potential)

\* C14: of a result of compute_pareto_scenarios, pareto_optimal is the list
\* of the scenarios of all_scenarios that no scenario of all_scenarios is at
\* least as good as on all four metrics and strictly better than on one, in
\* the order of all_scenarios; it is not empty when policy_options is not
\* empty; and recommendation is an entry of pareto_optimal whose
\* composite_score no entry of pareto_optimal exceeds.  A call with a
\* non-empty policy_options returns.
C14_ParetoOptimalAreTheUndominated ==
    api_call.method = "compute_pareto_scenarios" /\ api_ret.raised # "pending" =>
        /\ api_call.policy_options # <<>> => api_ret.raised = "none"
        /\ api_ret.raised = "none" =>
            LET all == api_ret.value.all_scenarios
                opt == api_ret.value.pareto_optimal
                Undominated(i) == ~ \E j \in 1..Len(all) : C14_Better(all[j], all[i])
            IN  /\ Len(all) = Len(api_call.policy_options)
                /\ \A i \in 1..Len(all) : all[i].policy = api_call.policy_options[i]
                /\ \A i \in 1..Len(all) :
                       Undominated(i) <=> \E p \in 1..Len(opt) : opt[p] = all[i]
                /\ \A p \in 1..Len(opt) : \E i \in 1..Len(all) : opt[p] = all[i]
                /\ Len(opt) = Cardinality({i \in 1..Len(all) : Undominated(i)})
                /\ opt # <<>>
                /\ \E p \in 1..Len(opt) : api_ret.value.recommendation = opt[p]
                /\ \A p \in 1..Len(opt) :
                       FLe(opt[p].composite_score,
                           api_ret.value.recommendation.composite_score)

\* a call with the pages' five options has returned: some scenario is
\* dominated, more than one is not, and the recommendation is not the first
\* of the undominated ones
C14_Witness ==
    /\ api_call.method = "compute_pareto_scenarios"
    /\ api_ret.raised = "none"
    /\ Len(api_ret.value.all_scenarios) = 5
    /\ Len(api_ret.value.pareto_optimal) \in 2..4
    /\ api_ret.value.recommendation # api_ret.value.pareto_optimal[1]

(***************************************************************************)
(* The client's public operations called one after another on one client,  *)
(* in any order                                                            *)
(***************************************************************************)
\* an assignment that lands in the data_quality table
set_data_quality(self, kalman_states) == [self EXCEPT !.data_quality = kalman_states]

\* the one assignment to an attribute made after construction:
\* self.kalman_states[country_iso3] = {...} and the writes through
\* state = self.kalman_states[country_iso3]
set_kalman_states(self, kalman_states) == [self EXCEPT !.kalman_states = kalman_states]

\* the arguments the operations are called with: every country code for the
\* helpers, and for each enhancement one or two calls as the pages make them
ApiCalls ==
    [method : {"get_oecd_compliance", "get_privacy_score", "get_argumentation_pattern"},
     country_iso3 : {"USA", "CHN", "GBR", "MENA"}]
    \cup {[method |-> "get_oecd_principles"]}
    \cup {[method |-> "calculate_ethical_alignment", country_iso3 |-> "USA",
           policy_scenario |-> "AI Ethics"],
          [method |-> "calculate_ethical_alignment_bayesian", country_iso3 |-> "MENA",
           policy_scenario |-> "AI Ethics"]}
    \cup {[method |-> "predict_convergence_timeline",
           country_a |-> "USA", country_b |-> "CHN", policy |-> "AI Safety"]}
    \cup {[method |-> "diagnose_capability_gap", country_iso3 |-> "BRA", target_gwc |-> 80]}
    \cup {[method |-> "compute_pareto_scenarios", country_a |-> "JPN", country_b |-> "IND",
           policy_options |-> <<"Data Privacy", "R&D Investment">>]}
    \cup {[method |-> "match_historical_scenarios", current_actors |-> <<"USA", "China">>,
           power_asymmetry |-> 60, issue_salience |-> 80, time_pressure |-> 70]}
    \cup {[method |-> "calculate_maturity_trajectory", country_iso3 |-> "GBR",
           target_level |-> 4, investment_per_month |-> 10, months |-> 12]}
    \cup {[method |-> "initialize_kalman_filter", country_iso3 |-> "USA"]}
    \cup {[method |-> "kalman_update", country_iso3 |-> "USA",
           new_measurement |-> SliderMeasurement,
           intervention_effect |-> SliderIntervention]}

\* what a call that leaves the client as it is returns
api_value(self, c) ==
    CASE c.method = "get_oecd_principles" -> self.oecd_principles
      [] c.method = "get_oecd_compliance" -> get_oecd_compliance(self, c.country_iso3)
      [] c.method = "get_privacy_score" -> get_privacy_score(self, c.country_iso3)
      [] c.method = "get_argumentation_pattern" ->
             get_argumentation_pattern(self, c.country_iso3)
      [] c.method = "calculate_ethical_alignment" ->
             calculate_ethical_alignment(self, c.country_iso3, c.policy_scenario)
      [] c.method = "calculate_ethical_alignment_bayesian" ->
             calculate_ethical_alignment_bayesian(self, c.country_iso3, c.policy_scenario)
      [] c.method = "predict_convergence_timeline" ->
             predict_convergence_timeline(self, c.country_a, c.country_b, c.policy).value
      [] c.method = "diagnose_capability_gap" ->
             diagnose_capability_gap(self, c.country_iso3, Lit(c.target_gwc))
      [] c.method = "compute_pareto_scenarios" ->
             compute_pareto_scenarios(self, c.country_a, c.country_b, c.policy_options).value
      [] c.method = "match_historical_scenarios" ->
             match_historical_scenarios(self, c.current_actors, Lit(c.power_asymmetry),
                                        Lit(c.issue_salience), Lit(c.time_pressure))
      [] c.method = "calculate_maturity_trajectory" ->
             calculate_maturity_trajectory(self, c.country_iso3, c.target_level,
                                           FDec(c.investment_per_month, 10), c.months)

ApiInit == KalmanInit

\* a helper or an enhancement that computes from the tables
ApiRead(c) ==
    /\ c.method \notin {"initialize_kalman_filter", "kalman_update"}
    /\ api_call' = c
    /\ api_ret' = [raised |-> "none", value |-> api_value(client.obj, c)]
    /\ UNCHANGED <<client, now, cache, last_update, call, outcome, fetched, convVars, sessVars, trustVars>>

\* initialize_kalman_filter(country_iso3)
ApiKalmanInitialize(c) ==
    /\ c.method = "initialize_kalman_filter"
    /\ client' = [client EXCEPT !.obj =
                      set_kalman_states(client.obj,
                                        initialize_kalman_filter(client.obj, c.country_iso3))]
    /\ api_call' = c
    /\ api_ret' = [raised |-> "none", value |-> None]
    /\ UNCHANGED <<now, cache, last_update, call, outcome, fetched, convVars, sessVars, trustVars>>

\* kalman_update(country_iso3, new_measurement, intervention_effect)
ApiKalmanUpdate(c) ==
    /\ c.method = "kalman_update"
    /\ kalman_updates_made(client.obj.kalman_states, KalmanCountries) < MaxKalmanUpdates
    /\ LET Done(ret) ==
               /\ client' = [client EXCEPT !.obj =
                                 set_kalman_states(client.obj, ret.kalman_states)]
               /\ api_ret' = [raised |-> "none", value |-> ret.value]
       IN  Done(kalman_update(client.obj, c.country_iso3, Lit(c.new_measurement),
                              Lit(c.intervention_effect)))
    /\ api_call' = c
    /\ UNCHANGED <<now, cache, last_update, call, outcome, fetched, convVars, sessVars, trustVars>>

ApiNext ==
    \E c \in ApiCalls :
        \/ ApiRead(c)
        \/ ApiKalmanInitialize(c)
        \/ ApiKalmanUpdate(c)

SpecApi == ApiInit /\ [][ApiNext]_vars

\* the attributes that hold the lookup tables
TableAttributes ==
    {"oecd_principles", "privacy_scores", "argumentation_patterns", "oecd_adoption",
     "narrow_factors", "data_quality", "influence_network", "historical_scenarios"}

MaxTimestep == 4

\* the agents of the example whose trust states the calls touch
TrustAgents == {"Government_A", "TechCorp", "ConsumerNGO"}

\* trust_levels given to TechCorp's TrustState: none, or full trust in
\* Government_A
InitialTrustLevels == {EmptyDict, [a \in {"Government_A"} |-> FInt(1)]}

\* interaction1 and interaction2_reverse of the example, and an interaction
\* at the ends of the ranges: outcome -1 at cooperation level 1
TrustInteractions ==
    {InteractionRecord(1, "TechCorp", "Government_A", 60, 70, 80),
     InteractionRecord(1, "TechCorp", "ConsumerNGO", -50, 40, 20),
     InteractionRecord(2, "TechCorp", "Government_A", -100, 100, 100)}

TrustInit ==
    /\ \E levels \in InitialTrustLevels :
           trust_states = [a \in TrustAgents |->
                              TrustState(a, IF a = "TechCorp" THEN levels ELSE EmptyDict)]
    /\ engine = TrustDynamicsEngine
    /\ coalition_mgr = CoalitionManager
    /\ timestep = 0
    /\ ApiIdle
    /\ IngressInit
    /\ ConvIdle
    /\ SessIdle

\* what a call on the trust objects leaves alone
TrustFrame == UNCHANGED <<ingressVars, convVars, sessVars>>

\* engine.update_trust_from_interaction(trust_states[agent_i], agent_j, interaction)
UpdateTrust(interaction) ==
    /\ timestep < MaxTimestep
    /\ LET Done(ret) ==
               /\ trust_states' = [trust_states EXCEPT ![interaction.agent_i] =
                                       ret.agent_i_trust]
               /\ api_ret' = [raised |-> "none", value |-> ret.value]
       IN  Done(update_trust_from_interaction(engine, trust_states[interaction.agent_i],
                                              interaction.agent_j, interaction))
    /\ api_call' = [method |-> "update_trust_from_interaction",
                    agent_i |-> interaction.agent_i, agent_j |-> interaction.agent_j,
                    interaction |-> interaction]
    /\ timestep' = timestep + 1
    /\ UNCHANGED <<engine, coalition_mgr>>
    /\ TrustFrame

\* engine.update_reciprocity_accounts(trust_states[agent_i], agent_j, interaction)
UpdateReciprocity(interaction) ==
    /\ timestep < MaxTimestep
    /\ trust_states' = [trust_states EXCEPT ![interaction.agent_i] =
                            update_reciprocity_accounts(@, interaction.agent_j, interaction)]
    /\ api_call' = [method |-> "update_reciprocity_accounts",
                    agent_i |-> interaction.agent_i, agent_j |-> interaction.agent_j,
                    interaction |-> interaction]
    /\ api_ret' = [raised |-> "none", value |-> None]
    /\ timestep' = timestep + 1
    /\ UNCHANGED <<engine, coalition_mgr>>
    /\ TrustFrame

\* engine.decay_trust_and_reciprocity(trust_states["TechCorp"])
DecayTrust ==
    /\ timestep < MaxTimestep
    /\ trust_states' = [trust_states EXCEPT !["TechCorp"] = decay_trust_and_reciprocity(@)]
    /\ api_call' = [method |-> "decay_trust_and_reciprocity", agent_i |-> "TechCorp"]
    /\ api_ret' = [raised |-> "none", value |-> None]
    /\ timestep' = timestep + 1
    /\ UNCHANGED <<engine, coalition_mgr>>
    /\ TrustFrame

\* engine.update_network_reputation(agent_id, all_interactions), the
\* interactions being those recorded for TechCorp
UpdateNetworkReputation(agent_id) ==
    /\ timestep < MaxTimestep
    /\ engine' = update_network_reputation(engine, agent_id,
                                           trust_states["TechCorp"].interaction_history)
    /\ api_call' = [method |-> "update_network_reputation", agent_id |-> agent_id]
    /\ api_ret' = [raised |-> "none", value |-> None]
    /\ timestep' = timestep + 1
    /\ UNCHANGED <<trust_states, coalition_mgr>>
    /\ TrustFrame

\* can_coalition = coalition_mgr.can_form_coalition(trust_states["TechCorp"],
\* "Government_A", moral_distance=0.3), and form_coalition if it can
FormCoalition ==
    /\ timestep < MaxTimestep
    /\ LET Formed(can_coalition) ==
               /\ coalition_mgr' =
                      IF can_coalition
                      THEN form_coalition(coalition_mgr, "tech_gov_alliance",
                                          {"TechCorp", "Government_A"})
                      ELSE coalition_mgr
               /\ api_ret' = [raised |-> "none", value |-> can_coalition]
       IN  Formed(can_form_coalition(coalition_mgr, trust_states["TechCorp"],
                                     "Government_A", Lit(30)))
    /\ api_call' = [method |-> "can_form_coalition", agent_i |-> "TechCorp",
                    agent_j |-> "Government_A"]
    /\ timestep' = timestep + 1
    /\ UNCHANGED <<trust_states, engine>>
    /\ TrustFrame

\* coalition_mgr.update_coalition_trust("tech_gov_alliance", trust_states)
UpdateCoalitionTrust ==
    /\ timestep < MaxTimestep
    /\ trust_states' = update_coalition_trust(coalition_mgr, "tech_gov_alliance",
                                              trust_states)
    /\ api_call' = [method |-> "update_coalition_trust",
                    coalition_id |-> "tech_gov_alliance"]
    /\ api_ret' = [raised |-> "none", value |-> None]
    /\ timestep' = timestep + 1
    /\ UNCHANGED <<engine, coalition_mgr>>
    /\ TrustFrame

TrustNext ==
    \/ \E interaction \in TrustInteractions : UpdateTrust(interaction)
    \/ \E interaction \in TrustInteractions : UpdateReciprocity(interaction)
    \/ DecayTrust
    \/ \E agent_id \in {"Government_A", "ConsumerNGO"} : UpdateNetworkReputation(agent_id)
    \/ FormCoalition
    \/ UpdateCoalitionTrust

SpecTrust == TrustInit /\ [][TrustNext]_vars

\* C17: a call of update_trust_from_interaction with outcome_for_i < 0
\* leaves agent i's trust in agent j not greater than it was, and a call
\* with outcome_for_i > 0 leaves it not smaller than it was
C17_TrustFollowsTheOutcome ==
    [][api_call'.method = "update_trust_from_interaction" =>
          LET before == get_trust(trust_states[api_call'.agent_i], api_call'.agent_j)
              after  == get_trust(trust_states'[api_call'.agent_i], api_call'.agent_j)
          IN  /\ FLt(api_call'.interaction.outcome_for_i, FZero) => FLe(after, before)
              /\ FLt(FZero, api_call'.interaction.outcome_for_i) => FLe(before, after)]_vars

\* C18: every value of every agent's trust_levels is in [0, 1]
C18_TrustLevelsInUnitInterval ==
    \A a \in DOMAIN trust_states :
        \A j \in DOMAIN trust_states[a].trust_levels :
            /\ FLe(FZero, trust_states[a].trust_levels[j])
            /\ FLe(trust_states[a].trust_levels[j], FInt(1))

\* the coalition's update has just run on a TechCorp that had full trust in
\* Government_A and has a trust level for ConsumerNGO from an interaction:
\* the bonus was cut off at 1
C18_Witness ==
    /\ api_call.method = "update_coalition_trust"
    /\ "Government_A" \in trust_states["TechCorp"].coalition_members
    /\ trust_states["TechCorp"].trust_levels["Government_A"] = FInt(1)
    /\ Has(trust_states["TechCorp"].trust_levels, "ConsumerNGO")
    /\ Has(trust_states["Government_A"].trust_levels, "TechCorp")

(***************************************************************************)
(* The time decay of simulate_trust_evolution_example: TechCorp's trust    *)
(* state is decayed round after round with no interaction in between       *)
(***************************************************************************)
\* interaction1 and interaction2_reverse of the example
interaction1 == InteractionRecord(1, "TechCorp", "Government_A", 60, 70, 80)

interaction2_reverse == InteractionRecord(2, "TechCorp", "ConsumerNGO", -50, 40, 20)

\* update_trust_from_interaction and update_reciprocity_accounts, as the
\* example calls them one after the other
interacted(agent_i_trust, interaction) ==
    update_reciprocity_accounts(
        update_trust_from_interaction(TrustDynamicsEngine, agent_i_trust,
                                      interaction.agent_j, interaction).agent_i_trust,
        interaction.agent_j, interaction)

\* TechCorp's trust state when the decay begins: as the example has left
\* it after its two interactions, after one harsh defection of
\* Government_A, or new with full trust in Government_A
DecayStarts ==
    {interacted(interacted(TrustState("TechCorp", EmptyDict), interaction1),
                interaction2_reverse),
     interacted(TrustState("TechCorp", EmptyDict),
                InteractionRecord(2, "TechCorp", "Government_A", -100, 100, 100)),
     TrustState("TechCorp", [a \in {"Government_A"} |-> FInt(1)])}

DecayInit ==
    /\ \E start \in DecayStarts :
           trust_states = [a \in TrustAgents |->
                              IF a = "TechCorp" THEN start ELSE TrustState(a, EmptyDict)]
    /\ engine = TrustDynamicsEngine
    /\ coalition_mgr = CoalitionManager
    /\ timestep = 0
    /\ ApiIdle
    /\ IngressInit
    /\ ConvIdle
    /\ SessIdle

\* the rounds of decay the loop makes: range(10) in the example
MaxDecayRounds == 2000

\* the loop goes on to its next round
NextRound == timestep < MaxDecayRounds /\ timestep' = timestep + 1

\* for timestep in range(...): engine.decay_trust_and_reciprocity(trust_states["TechCorp"])
DecayRound ==
    /\ NextRound
    /\ trust_states' = [trust_states EXCEPT !["TechCorp"] = decay_trust_and_reciprocity(@)]
    /\ api_call' = [method |-> "decay_trust_and_reciprocity", agent_i |-> "TechCorp"]
    /\ api_ret' = [raised |-> "none", value |-> None]
    /\ UNCHANGED <<engine, coalition_mgr>>
    /\ TrustFrame

DecayNext == DecayRound

\* a loop that has a round left to make makes it
SpecDecay == DecayInit /\ [][DecayNext]_vars /\ WF_timestep(NextRound)

\* x lies between a and b, the ends included
C25_Between(x, a, b) == (FLe(a, x) /\ FLe(x, b)) \/ (FLe(b, x) /\ FLe(x, a))

\* x and y differ by 2^-50 at most
C25_Close(x, y) == FLe(FAbs(FSub(x, y)), FCanon(1, BFromInt(1), -50))

\* what a decay round may make of the trust state before: every trust
\* level between the old one and the baseline, at (1 - trust_decay_rate)
\* times the old distance from it, every debt and grievance at
\* (1 - forgiveness_rate) times the old one and not negative
C25_Decayed(before, after) ==
    /\ DOMAIN after.trust_levels = DOMAIN before.trust_levels
    /\ DOMAIN after.debts_owed = DOMAIN before.debts_owed
    /\ DOMAIN after.grievances = DOMAIN before.grievances
    /\ \A j \in DOMAIN before.trust_levels :
           /\ C25_Between(after.trust_levels[j], before.trust_levels[j], before.baseline_trust)
           /\ C25_Close(FAbs(FSub(after.trust_levels[j], before.baseline_trust)),
                        FMul(FAbs(FSub(before.trust_levels[j], before.baseline_trust)),
                             FSub(FInt(1), before.trust_decay_rate)))
    /\ \A j \in DOMAIN before.debts_owed :
           /\ after.debts_owed[j] =
                  FMul(before.debts_owed[j], FSub(FInt(1), before.forgiveness_rate))
           /\ FLe(FZero, after.debts_owed[j])
    /\ \A j \in DOMAIN before.grievances :
           /\ after.grievances[j] =
                  FMul(before.grievances[j], FSub(FInt(1), before.forgiveness_rate))
           /\ FLe(FZero, after.grievances[j])

\* every trust level of TechCorp is within 2^-47 of the baseline
C25_AtBaseline ==
    \A j \in DOMAIN trust_states["TechCorp"].trust_levels :
        FLe(FAbs(FSub(trust_states["TechCorp"].trust_levels[j],
                      trust_states["TechCorp"].baseline_trust)),
            FCanon(1, BFromInt(1), -47))

\* C25: a decay round moves every trust level toward the baseline without
\* crossing it (the new level lies between the old one and baseline_trust,
\* its distance from the baseline 1 - trust_decay_rate times the old one),
\* multiplies every debt and grievance by 1 - forgiveness_rate and leaves
\* them non-negative; decayed again and again with no interaction, the trust
\* levels come to stay at the baseline, up to the rounding of the floats
C25_DecayTowardBaseline ==
    /\ [][C25_Decayed(trust_states["TechCorp"], trust_states'["TechCorp"])]_vars
    /\ <>[]C25_AtBaseline

\* the example's state after rounds of decay: the trust in Government_A has
\* come down to the baseline from above, the trust in ConsumerNGO sits
\* within 2^-47 of it without being equal to it, and the debt and the
\* grievance are still positive
C25_Witness ==
    /\ api_call.method = "decay_trust_and_reciprocity"
    /\ DOMAIN trust_states["TechCorp"].trust_levels = {"Government_A", "ConsumerNGO"}
    /\ C25_AtBaseline
    /\ \E j \in DOMAIN trust_states["TechCorp"].trust_levels :
           trust_states["TechCorp"].trust_levels[j] # trust_states["TechCorp"].baseline_trust
    /\ FLt(FZero, trust_states["TechCorp"].debts_owed["Government_A"])
    /\ FLt(FZero, trust_states["TechCorp"].grievances["ConsumerNGO"])



(***************************************************************************)
(* Moral foundations: the policy features, an agent's five weights, the    *)
(* evaluator of a scenario context and the weighted moral value            *)
(***************************************************************************)
\* the float attributes of PolicyFeatures (policy_id, policy_name and
\* policy_type are texts that no evaluation reads)
PolicyFeatureNames ==
    {"safety_requirements", "harm_prevention", "vulnerable_protection",
     "privacy_safeguards", "equity_provisions", "procedural_fairness",
     "access_equality", "small_actor_burden", "national_advantage",
     "competitiveness_impact", "cross_border_cooperation", "ingroup_solidarity",
     "institutional_clarity", "regulatory_strength", "precedent_alignment",
     "expert_deference", "human_dignity", "privacy_sanctity", "transparency_norms",
     "manipulation_prevention", "implementation_cost", "innovation_impact",
     "enforcement_difficulty"}

\* PolicyFeatures(...) with the keyword arguments given (in hundredths):
\* every attribute left out takes the dataclass default 0.5
PolicyFeatures(given) == [f \in PolicyFeatureNames |-> Lit(Get(given, f, 50))]

\* a weight that is stored as it was given
kept_as_given(weight, total) == weight

\* self.<foundation> /= total
divided_by_total(weight, total) == FDiv(weight, total)

\* MoralFoundations(...) with __post_init__: the total is added from left to
\* right, and the five weights are divided by it when it is positive
MoralFoundations(care_harm, fairness_cheating, loyalty_betrayal, authority_subversion, sanctity_degradation) ==
    LET PostInit(self, total) ==
            IF FLt(FZero, total)
            THEN [foundation \in DOMAIN self |-> divided_by_total(self[foundation], total)]
            ELSE self
    IN  PostInit([care_harm |-> care_harm,
                  fairness_cheating |-> fairness_cheating,
                  loyalty_betrayal |-> loyalty_betrayal,
                  authority_subversion |-> authority_subversion,
                  sanctity_degradation |-> sanctity_degradation],
                 FAdd(FAdd(FAdd(FAdd(care_harm, fairness_cheating), loyalty_betrayal),
                           authority_subversion), sanctity_degradation))

\* MoralEvaluator._initialize_harm_weights
initialize_harm_weights(scenario_context) ==
    LET base_weights == [safety |-> Lit(30), privacy |-> Lit(25),
                         vulnerable_protection |-> Lit(25), harm_prevention |-> Lit(20)]
    IN  IF scenario_context = "data_privacy"
        THEN [base_weights EXCEPT !.privacy = Lit(40), !.safety = Lit(20)]
        ELSE IF scenario_context = "ethics_board"
        THEN [base_weights EXCEPT !.vulnerable_protection = Lit(35),
                                  !.harm_prevention = Lit(30)]
        ELSE base_weights

\* MoralEvaluator._initialize_fairness_weights
initialize_fairness_weights(scenario_context) ==
    LET base_weights == [equity |-> Lit(30), procedural |-> Lit(30), access |-> Lit(25),
                         burden_distribution |-> Lit(15)]
    IN  IF scenario_context = "ethics_board"
        THEN [base_weights EXCEPT !.procedural = Lit(40), !.equity = Lit(35)]
        ELSE IF scenario_context = "transparency"
        THEN [base_weights EXCEPT !.procedural = Lit(45), !.access = Lit(30)]
        ELSE base_weights

\* MoralEvaluator._initialize_loyalty_weights
initialize_loyalty_weights ==
    [national_interest |-> Lit(35), competitiveness |-> Lit(30), cooperation |-> Lit(20),
     solidarity |-> Lit(15)]

\* MoralEvaluator._initialize_authority_weights
initialize_authority_weights ==
    [institutional_clarity |-> Lit(30), enforcement |-> Lit(25), precedent |-> Lit(25),
     expertise |-> Lit(20)]

\* MoralEvaluator._initialize_sanctity_weights
initialize_sanctity_weights(scenario_context) ==
    LET base_weights == [human_dignity |-> Lit(35), privacy_sanctity |-> Lit(30),
                         transparency_norms |-> Lit(20),
                         manipulation_prevention |-> Lit(15)]
    IN  IF scenario_context = "data_privacy"
        THEN [base_weights EXCEPT !.privacy_sanctity = Lit(45), !.human_dignity = Lit(30)]
        ELSE base_weights

\* MoralEvaluator(scenario_context)
MoralEvaluator(scenario_context) ==
    [scenario_context |-> scenario_context,
     harm_weights |-> initialize_harm_weights(scenario_context),
     fairness_weights |-> initialize_fairness_weights(scenario_context),
     loyalty_weights |-> initialize_loyalty_weights,
     authority_weights |-> initialize_authority_weights,
     sanctity_weights |-> initialize_sanctity_weights(scenario_context)]

\* a + b + c + d as Python adds it
FAdd4(a, b, c, d) == FAdd(FAdd(FAdd(a, b), c), d)

\* np.clip(2 * score - 1, -1, 1)
normalize_to_signed_unit(score) ==
    np_clip(FSub(FMul(FInt(2), score), FInt(1)), FInt(-1), FInt(1))

\* MoralEvaluator.evaluate_care_harm
evaluate_care_harm(self, policy) ==
    LET care_score ==
            FAdd4(FMul(self.harm_weights.safety, policy.safety_requirements),
                  FMul(self.harm_weights.privacy, policy.privacy_safeguards),
                  FMul(self.harm_weights.vulnerable_protection,
                       policy.vulnerable_protection),
                  FMul(self.harm_weights.harm_prevention, policy.harm_prevention))
        regulatory_harm ==
            FAdd(FMul(FDec(3, 10), policy.implementation_cost),
                 FMul(FDec(2, 10), policy.enforcement_difficulty))
        net_score == FSub(care_score, FMul(FDec(3, 10), regulatory_harm))
    IN  normalize_to_signed_unit(net_score)

\* MoralEvaluator.evaluate_fairness_cheating
evaluate_fairness_cheating(self, policy) ==
    LET fairness_score ==
            FAdd(FAdd(FMul(self.fairness_weights.equity, policy.equity_provisions),
                      FMul(self.fairness_weights.procedural, policy.procedural_fairness)),
                 FMul(self.fairness_weights.access, policy.access_equality))
        unfairness_penalty ==
            FMul(self.fairness_weights.burden_distribution, policy.small_actor_burden)
        net_score == FSub(fairness_score, unfairness_penalty)
    IN  normalize_to_signed_unit(net_score)

\* MoralEvaluator.evaluate_loyalty_betrayal
evaluate_loyalty_betrayal(self, policy) ==
    LET loyalty_score ==
            FAdd4(FMul(self.loyalty_weights.national_interest, policy.national_advantage),
                  FMul(self.loyalty_weights.competitiveness,
                       FSub(FInt(1), policy.competitiveness_impact)),
                  FMul(self.loyalty_weights.cooperation, policy.cross_border_cooperation),
                  FMul(self.loyalty_weights.solidarity, policy.ingroup_solidarity))
    IN  normalize_to_signed_unit(loyalty_score)

\* MoralEvaluator.evaluate_authority_subversion
evaluate_authority_subversion(self, policy) ==
    LET authority_score ==
            FAdd4(FMul(self.authority_weights.institutional_clarity,
                       policy.institutional_clarity),
                  FMul(self.authority_weights.enforcement, policy.regulatory_strength),
                  FMul(self.authority_weights.precedent, policy.precedent_alignment),
                  FMul(self.authority_weights.expertise, policy.expert_deference))
    IN  normalize_to_signed_unit(authority_score)

\* MoralEvaluator.evaluate_sanctity_degradation
evaluate_sanctity_degradation(self, policy) ==
    LET sanctity_score ==
            FAdd4(FMul(self.sanctity_weights.human_dignity, policy.human_dignity),
                  FMul(self.sanctity_weights.privacy_sanctity, policy.privacy_sanctity),
                  FMul(self.sanctity_weights.transparency_norms, policy.transparency_norms),
                  FMul(self.sanctity_weights.manipulation_prevention,
                       policy.manipulation_prevention))
    IN  normalize_to_signed_unit(sanctity_score)

\* MoralEvaluator.evaluate_all_foundations
evaluate_all_foundations(self, policy) ==
    [care_harm |-> evaluate_care_harm(self, policy),
     fairness_cheating |-> evaluate_fairness_cheating(self, policy),
     loyalty_betrayal |-> evaluate_loyalty_betrayal(self, policy),
     authority_subversion |-> evaluate_authority_subversion(self, policy),
     sanctity_degradation |-> evaluate_sanctity_degradation(self, policy)]

\* MoralEvaluator.compute_moral_value
compute_moral_value(self, policy, agent_foundations) ==
    LET MoralValue(foundation_scores) ==
            FAdd(FAdd4(FMul(agent_foundations.care_harm, foundation_scores.care_harm),
                       FMul(agent_foundations.fairness_cheating,
                            foundation_scores.fairness_cheating),
                       FMul(agent_foundations.loyalty_betrayal,
                            foundation_scores.loyalty_betrayal),
                       FMul(agent_foundations.authority_subversion,
                            foundation_scores.authority_subversion)),
                 FMul(agent_foundations.sanctity_degradation,
                      foundation_scores.sanctity_degradation))
    IN  MoralValue(evaluate_all_foundations(self, policy))

(***************************************************************************)
(* Profiles built from five weights and the moral value of a policy for    *)
(* them. api_call holds the constructor call (weights in hundredths) and   *)
(* then the compute_moral_value call made with the profile it returned.    *)
(***************************************************************************)
\* the five weights of STAKEHOLDER_PROFILES' ten profiles, in hundredths
STAKEHOLDER_PROFILES ==
    [consumer_advocacy_ngo |-> <<45, 35, 5, 10, 5>>,
     tech_industry_association |-> <<20, 25, 15, 30, 10>>,
     progressive_government |-> <<35, 30, 10, 15, 10>>,
     conservative_government |-> <<20, 20, 25, 25, 10>>,
     academic_ethics_board |-> <<35, 30, 5, 15, 15>>,
     civil_liberties_group |-> <<25, 30, 5, 15, 25>>,
     national_security_agency |-> <<25, 15, 35, 20, 5>>,
     multinational_corporation |-> <<15, 25, 15, 35, 10>>,
     small_business_coalition |-> <<20, 40, 15, 20, 5>>,
     international_standards_body |-> <<30, 30, 10, 20, 10>>]

\* the weights a profile is built from: the repository's ten profiles, the
\* dataclass defaults, every choice of 0, 0.1 and 0.3 for each weight (all
\* zero among them), whole numbers, and two choices with a negative weight
MoralWeights ==
    {STAKEHOLDER_PROFILES[k] : k \in DOMAIN STAKEHOLDER_PROFILES}
    \cup {<<20, 20, 20, 20, 20>>, <<100, 100, 100, 100, 100>>, <<100, 0, 0, 0, 0>>,
          <<-10, 10, 0, 0, 0>>, <<-20, 40, 30, 30, 20>>}
    \cup [1..5 -> {0, 10, 30}]

\* the attributes by which a policy burdens rather than protects
PolicyBurdens ==
    {"implementation_cost", "enforcement_difficulty", "small_actor_burden",
     "competitiveness_impact"}

\* create_example_policy()
create_example_policy ==
    [safety_requirements |-> 85, harm_prevention |-> 80, vulnerable_protection |-> 75,
     privacy_safeguards |-> 70, equity_provisions |-> 60, procedural_fairness |-> 75,
     access_equality |-> 65, small_actor_burden |-> 70, national_advantage |-> 50,
     competitiveness_impact |-> 60, cross_border_cooperation |-> 70,
     ingroup_solidarity |-> 55, institutional_clarity |-> 80, regulatory_strength |-> 85,
     precedent_alignment |-> 75, expert_deference |-> 80, human_dignity |-> 70,
     privacy_sanctity |-> 70, transparency_norms |-> 75, manipulation_prevention |-> 75,
     implementation_cost |-> 65, innovation_impact |-> 50, enforcement_difficulty |-> 55]

\* the policy of the demonstration page with its sliders where they start
demo_policy ==
    [safety_requirements |-> 85, privacy_safeguards |-> 90, vulnerable_protection |-> 80,
     equity_provisions |-> 75, procedural_fairness |-> 80, small_actor_burden |-> 65,
     institutional_clarity |-> 85, regulatory_strength |-> 90, human_dignity |-> 90,
     privacy_sanctity |-> 95]

\* the keyword arguments of the policies evaluated: none (all defaults), the
\* example policy, the page's policy, and the four policies whose protections
\* are all 0 or all 1 and whose burdens are all 0 or all 1
MoralPolicies ==
    {EmptyDict, create_example_policy, demo_policy}
    \cup {[f \in PolicyFeatureNames |-> IF f \in PolicyBurdens THEN burden ELSE protection] :
              protection \in {0, 100}, burden \in {0, 100}}

\* the scenario contexts of MoralEvaluator's docstring
ScenarioContexts == {"general", "data_privacy", "ethics_board", "transparency"}

\* a constructor call is about to be made
MoralInit ==
    /\ api_call \in [method : {"MoralFoundations"}, weights : MoralWeights]
    /\ api_ret = [raised |-> "pending", value |-> <<>>]
    /\ IngressInit /\ ConvIdle /\ SessIdle /\ TrustIdle

\* MoralFoundations(care_harm=..., ...) returns the profile
ConstructMoralFoundations ==
    /\ api_call.method = "MoralFoundations"
    /\ api_ret.raised = "pending"
    /\ api_ret' = [raised |-> "none",
                   value |-> MoralFoundations(Signed(api_call.weights[1]),
                                              Signed(api_call.weights[2]),
                                              Signed(api_call.weights[3]),
                                              Signed(api_call.weights[4]),
                                              Signed(api_call.weights[5]))]
    /\ UNCHANGED <<api_call, ingressVars, convVars, sessVars, trustVars>>

\* MoralEvaluator(scenario_context).compute_moral_value(policy, foundations)
\* with the profile just built
ComputeMoralValue ==
    /\ api_call.method = "MoralFoundations"
    /\ api_ret.raised = "none"
    /\ \E scenario_context \in ScenarioContexts, policy \in MoralPolicies :
        /\ api_call' = [method |-> "compute_moral_value",
                        scenario_context |-> scenario_context,
                        policy |-> policy,
                        weights |-> api_call.weights,
                        agent_foundations |-> api_ret.value]
        /\ api_ret' = [raised |-> "none",
                       value |-> compute_moral_value(MoralEvaluator(scenario_context),
                                                     PolicyFeatures(policy),
                                                     api_ret.value)]
    /\ UNCHANGED <<ingressVars, convVars, sessVars, trustVars>>

MoralNext == ConstructMoralFoundations \/ ComputeMoralValue

SpecMoral == MoralInit /\ [][MoralNext]_vars

\* C19: compute_moral_value returns a value in [-1, 1] for every policy whose
\* features are all in [0, 1], every scenario context and every profile built
\* from non-negative weights
C19_MoralValueInSignedUnit ==
    (/\ api_call.method = "compute_moral_value"
     /\ \A i \in 1..5 : api_call.weights[i] >= 0)
    => /\ FLe(FInt(-1), api_ret.value)
       /\ FLe(api_ret.value, FInt(1))

\* the five stored weights of a profile, added from left to right
C20_StoredSum(f) ==
    FAdd(FAdd4(f.care_harm, f.fairness_cheating, f.loyalty_betrayal,
               f.authority_subversion), f.sanctity_degradation)

\* the five weights as they were given to the constructor
C20_Given(weights) ==
    [care_harm |-> Signed(weights[1]), fairness_cheating |-> Signed(weights[2]),
     loyalty_betrayal |-> Signed(weights[3]), authority_subversion |-> Signed(weights[4]),
     sanctity_degradation |-> Signed(weights[5])]

\* x and y differ by 2^-50 at most
C20_Close(x, y) == FLe(FAbs(FSub(x, y)), FCanon(1, BFromInt(1), -50))

====
